---- MODULE Spec2Model ----
(***************************************************************************)
(* Model of backend/app/auditor/schema_fix.py: the JSON-LD post-processing *)
(* pipeline (run_pipeline and its six transforms, the graph normaliser)    *)
(* and the extraction of JSON-LD and concept arrays from a response text;  *)
(* of backend/app/auditor/flatten.py: the prose rendering of a graph; and  *)
(* of backend/app/jobs.py: the progress of an audit job.                   *)
(*                                                                         *)
(* JSON values are tagged pairs <<kind, payload>>:                         *)
(*   <<"str", s>>   s a sequence of tokens (the string's text, cut at the  *)
(*                  places urlparse and the f-strings look at)             *)
(*   <<"num", n>>   a number (any non-string scalar that is not null)      *)
(*   <<"null", <<>> >>  None / JSON null                                   *)
(*   <<"arr", xs>>  a list, xs a sequence of JSON values                   *)
(*   <<"obj", f>>   a dict, f a function from its keys to JSON values      *)
(* Python dict equality ignores key order and so does function equality;   *)
(* where the code iterates over a dict the model walks it in KeyOrder.     *)
(***************************************************************************)
EXTENDS Integers, Sequences, FiniteSets, TLC

VARIABLES jsonld, graph, graph_in, corrections, all_corrections, pc, entry, fixed,
          text, concepts, arg, shared, flattened, job, task, db

vars == <<jsonld, graph, graph_in, corrections, all_corrections, pc, entry, fixed,
          text, concepts, arg, shared, flattened, job, task, db>>

---------------------------------------------------------------------------
(* JSON values and the Python operations the code applies to them *)

Str(s) == <<"str", s>>
Num(n) == <<"num", n>>
Null == <<"null", <<>> >>
Arr(xs) == <<"arr", xs>>
Obj(f) == <<"obj", f>>
EmptyObj == Obj(<<>>)

Kind(v) == v[1]
Val(v) == v[2]
IsStr(v) == Kind(v) = "str"
IsList(v) == Kind(v) = "arr"
IsDict(v) == Kind(v) = "obj"
IsNone(v) == Kind(v) = "null"

\* bool(v)
Truthy(v) ==
  CASE Kind(v) = "str" -> Val(v) # <<>>
    [] Kind(v) = "num" -> Val(v) # 0
    [] Kind(v) = "null" -> FALSE
    [] Kind(v) = "arr" -> Val(v) # <<>>
    [] Kind(v) = "obj" -> DOMAIN Val(v) # {}

\* hash(v) succeeds: lists and dicts are unhashable
Hashable(v) == Kind(v) \in {"str", "num", "null"}

\* a or b
Or(a, b) == IF Truthy(a) THEN a ELSE b

\* k in d, d.get(k, default), d[k] = v, d.pop(k, None) on a dict d
Has(d, k) == k \in DOMAIN Val(d)
Get(d, k, default) == IF Has(d, k) THEN Val(d)[k] ELSE default
Put(d, k, v) == Obj((k :> v) @@ Val(d))
Pop(d, k) == Obj([x \in DOMAIN Val(d) \ {k} |-> Val(d)[x]])

\* The order in which the model walks the keys of a dict.
KeyOrder ==
  << "@context", "@type", "@id", "@graph", "url", "name", "logo", "about",
     "isPartOf", "mainEntity", "provider", "publisher", "image", "thumbnail",
     "author", "foo", "description", "areaServed", "headline", "hasOfferCatalog",
     "itemListElement" >>

Keys(d) == SelectSeq(KeyOrder, LAMBDA k : k \in DOMAIN Val(d))

Indices(n) == [i \in 1..n |-> i]

RECURSIVE Concat(_)
\* the concatenation of a sequence of sequences
Concat(ss) == IF ss = <<>> THEN <<>> ELSE Head(ss) \o Concat(Tail(ss))

\* A type name as the JSON string that names it.
T(tn) == Str(<<tn>>)

---------------------------------------------------------------------------
(* Strings: urllib.parse.urlparse and the f-strings of ensure_website_node *)

\* Tokens made only of scheme characters (letters, digits, "+", "-", ".").
SchemeCharTokens == {"https", "acme.com", "other.org", "page"}

\* Tokens that start with one of the characters "/", "?", "#", which end a netloc.
IsDelimiter(tok) ==
  tok \in {"/", "//", "?", "#org", "#website", "#missing", "#svc", "#page"}

\* s.find(tok), 1-based, 0 when absent
Find(s, tok) ==
  IF \E i \in 1..Len(s) : s[i] = tok
  THEN CHOOSE i \in 1..Len(s) : s[i] = tok /\ \A j \in 1..(i-1) : s[j] # tok
  ELSE 0

\* urlparse(url): the scheme before the first ":" when everything before it is
\* scheme characters, the netloc after a leading "//" up to the next delimiter.
urlparse(url) ==
  LET i == Find(url, ":")
      hasScheme == i > 1 /\ \A j \in 1..(i-1) : url[j] \in SchemeCharTokens
      rest == IF hasScheme THEN SubSeq(url, i+1, Len(url)) ELSE url
      hasNetloc == IF rest = <<>> THEN FALSE ELSE rest[1] = "//"
      after == IF hasNetloc THEN Tail(rest) ELSE <<>>
      stop == IF \E j \in 1..Len(after) : IsDelimiter(after[j])
              THEN CHOOSE j \in 1..Len(after) :
                     IsDelimiter(after[j]) /\ \A m \in 1..(j-1) : ~IsDelimiter(after[m])
              ELSE Len(after) + 1
  IN [scheme |-> IF hasScheme THEN SubSeq(url, 1, i-1) ELSE <<>>,
      netloc |-> SubSeq(after, 1, stop - 1)]

\* f"{parsed.scheme}://{parsed.netloc}"
BaseUrl(url) == urlparse(url).scheme \o <<":", "//">> \o urlparse(url).netloc

\* f"{base_url}/#website"
WebsiteId(base_url) == base_url \o <<"/", "#website">>

\* base_url.split("//")[-1]
AfterLastSlashes(s) ==
  IF \E i \in 1..Len(s) : s[i] = "//"
  THEN LET i == CHOOSE i \in 1..Len(s) : s[i] = "//" /\ \A j \in (i+1)..Len(s) : s[j] # "//"
       IN SubSeq(s, i+1, Len(s))
  ELSE s

---------------------------------------------------------------------------
(* Helpers *)

\* node.get("@type", ""), then `tn in types` with types = [t] for a string t and t
\* itself otherwise: membership in a list, key membership in a dict.
MatchesType(node, type_names) ==
  LET t == Get(node, "@type", Str(<<>>))
  IN CASE IsStr(t) -> \E tn \in type_names : t = T(tn)
       [] IsList(t) -> \E tn \in type_names : \E i \in 1..Len(Val(t)) : Val(t)[i] = T(tn)
       [] IsDict(t) -> \E tn \in type_names : tn \in DOMAIN Val(t)
       [] OTHER -> FALSE

\* _find_nodes_by_type raises: node.get on a non-dict (AttributeError), or `in` on
\* an @type that is neither a string nor iterable (TypeError).
FindRaises(g) ==
  \E i \in 1..Len(g) :
    \/ ~IsDict(g[i])
    \/ Kind(Get(g[i], "@type", Str(<<>>))) \in {"num", "null"}

\* _find_nodes_by_type: the matching nodes, as their positions in the graph (the
\* code holds references to the node objects and mutates them in place).
_find_nodes_by_type(g, type_names) ==
  SelectSeq(Indices(Len(g)), LAMBDA i : MatchesType(g[i], type_names))

\* list(x): raises for a number or None; a string gives its characters, a dict
\* its keys.
ListRaises(x) == Kind(x) \in {"num", "null"}
ListOf(x) ==
  CASE IsList(x) -> Val(x)
    [] IsStr(x) -> [i \in 1..Len(Val(x)) |-> Str(<<Val(x)[i]>>)]
    [] IsDict(x) -> [i \in 1..Len(Keys(x)) |-> Str(<<Keys(x)[i]>>)]
    [] OTHER -> <<>>

\* _extract_graph
ExtractRaises(data) == IsDict(data) /\ Has(data, "@graph") /\ ListRaises(Val(data)["@graph"])
_extract_graph(data) ==
  IF IsList(data) THEN Val(data)
  ELSE IF IsDict(data)
       THEN IF Has(data, "@graph") THEN ListOf(Val(data)["@graph"]) ELSE <<data>>
       ELSE <<>>

\* _wrap_graph building a fresh envelope instead of cloning the original one
\* (the sibling keys are lost)
_wrap_graph_fresh(nodes, original) ==
  IF IsList(original) THEN Arr(nodes)
  ELSE IF IsDict(original) /\ ~Has(original, "@graph") /\ Len(nodes) = 1 THEN nodes[1]
  ELSE Obj([k \in {"@graph"} |-> Arr(nodes)])

\* _wrap_graph
_wrap_graph(nodes, original) ==
  IF IsDict(original) /\ Has(original, "@graph") THEN Put(original, "@graph", Arr(nodes))
  ELSE IF IsList(original) THEN Arr(nodes)
  ELSE IF Len(nodes) = 1 THEN nodes[1]
  ELSE Obj([k \in {"@graph"} |-> Arr(nodes)])

\* Object identity. The mutable objects of a document are its container (the
\* envelope dict or the top-level list), the sibling values of the envelope and
\* the node dicts; a set of these parts says which objects of the caller's
\* argument a document is built from.
\* copy.deepcopy(x) without the copy: every object is the caller's
deepcopy_identity(x) ==
  IF Kind(x) \in {"arr", "obj"} THEN {"container", "siblings", "nodes"} ELSE {}

\* copy.deepcopy(x): the parts of x the copy shares with x. Every container,
\* sibling value and node is cloned, so none.
deepcopy(x) == {}

\* list(data) and [data] in _extract_graph: a new list holding the same node
\* objects
ExtractShares(sh) == sh \cap {"nodes"}

\* What the caller's argument holds once the node list built from it has
\* become nodes: a transform assigns keys of the node objects in place and
\* appends to the list it was given.
WriteThrough(a, nodes, sh) ==
  IF "container" \in sh /\ IsList(a) THEN Arr(nodes)
  ELSE IF "nodes" \notin sh THEN a
  ELSE IF IsList(a) THEN Arr(SubSeq(nodes, 1, Len(Val(a))))
  ELSE IF IsDict(a) /\ Has(a, "@graph")
       THEN IF IsList(Val(a)["@graph"])
            THEN Put(a, "@graph", Arr(SubSeq(nodes, 1, Len(Val(Val(a)["@graph"])))))
            ELSE a
  ELSE IF IsDict(a) THEN nodes[1]
  ELSE a

\* _wrap_graph: the parts of the caller's argument the returned document is
\* built from, sh being those of the node list
WrapShares(sh, original) ==
  IF IsDict(original) /\ Has(original, "@graph")
  THEN (deepcopy(original) \cap {"container", "siblings"}) \cup (sh \cap {"nodes"})
  ELSE sh

\* out["@graph"] = nodes in _wrap_graph, as the caller's argument sees it
WrapWrites(a, nodes) ==
  IF IsDict(a) /\ Has(a, "@graph") /\ "container" \in deepcopy(a)
  THEN Put(a, "@graph", Arr(nodes))
  ELSE a

\* What a transform returns: (graph, corrections), or an exception.
Ret(g, corr) == [graph |-> g, corr |-> corr, err |-> FALSE]
Raise == [graph |-> <<>>, corr |-> <<>>, err |-> TRUE]

\* node.get("@id", "?")
NodeId(node) == Get(node, "@id", Str(<<"?">>))

\* A dict literal, from its <<key, value>> items.
Dict(items) ==
  Obj([k \in {it[1] : it \in items} |-> (CHOOSE it \in items : it[1] = k)[2]])

\* A reference stub {"@id": id}
Ref(id) == Dict({<<"@id", id>>})

PageTypes == {"WebPage", "ServicePage", "AboutPage", "ContactPage", "CollectionPage"}
OrgTypes == {"Organization", "ProfessionalService"}
ServiceTypes == {"Service", "ProfessionalService", "FinancialService"}

---------------------------------------------------------------------------
(* Transform 1: normalize_logo *)

\* normalize_logo testing `if logo:` instead of isinstance(logo, str): a logo
\* that is already an object is wrapped again
normalize_logo_truthy(g) ==
  IF \E i \in 1..Len(g) : ~IsDict(g[i]) THEN Raise
  ELSE
    LET bare(i) == Truthy(Get(g[i], "logo", Null))
        hit == SelectSeq(Indices(Len(g)), bare)
    IN Ret([i \in 1..Len(g) |->
              IF bare(i)
              THEN Put(g[i], "logo",
                       Dict({<<"@type", T("ImageObject")>>, <<"url", Val(g[i])["logo"]>>}))
              ELSE g[i]],
           [j \in 1..Len(hit) |->
              [transform |-> "normalize_logo",
               node_id |-> NodeId(g[hit[j]]),
               detail |-> <<"Converted bare logo string to ImageObject", Val(g[hit[j]])["logo"]>>]])

normalize_logo(g) ==
  IF \E i \in 1..Len(g) : ~IsDict(g[i]) THEN Raise
  ELSE
    LET bare(i) == IsStr(Get(g[i], "logo", Null))
        hit == SelectSeq(Indices(Len(g)), bare)
    IN Ret([i \in 1..Len(g) |->
              IF bare(i)
              THEN Put(g[i], "logo",
                       Dict({<<"@type", T("ImageObject")>>, <<"url", Val(g[i])["logo"]>>}))
              ELSE g[i]],
           [j \in 1..Len(hit) |->
              [transform |-> "normalize_logo",
               node_id |-> NodeId(g[hit[j]]),
               detail |-> <<"Converted bare logo string to ImageObject", Val(g[hit[j]])["logo"]>>]])

---------------------------------------------------------------------------
(* Transform 2: ensure_website_node *)

\* node.get("url") or node.get("@id", "")
UrlOrId(node) == Or(Get(node, "url", Null), Get(node, "@id", Str(<<>>)))

\* The page's isPartOf is rewritten: it is missing or falsy, or a dict whose @id
\* is not the website id.
NeedsIsPartOf(page, website_id) ==
  LET is_part_of == Get(page, "isPartOf", Null)
  IN \/ ~Truthy(is_part_of)
     \/ IsDict(is_part_of) /\ Get(is_part_of, "@id", Null) # Str(website_id)

\* graph.append(website) putting the node in front of the list
graph_insert_first(g, website) == <<website>> \o g

\* graph.append(website) left out: the WebSite node is reported, never added
graph_append_skipped(g, website) == g

\* graph.append(website)
graph_append(g, website) == Append(g, website)

ensure_website_node(g) ==
  IF FindRaises(g) THEN Raise
  ELSE IF _find_nodes_by_type(g, {"WebSite"}) # <<>> THEN Ret(g, <<>>)
  ELSE
    LET orgs == _find_nodes_by_type(g, OrgTypes)
        pages == _find_nodes_by_type(g, PageTypes)
        withUrl(i) == Truthy(UrlOrId(g[i]))
        orgsUrl == SelectSeq(orgs, withUrl)
        pagesUrl == SelectSeq(pages, withUrl)
        \* the node the first loop, or else the second, breaks at (0: none)
        src == IF orgsUrl # <<>> THEN orgsUrl[1]
               ELSE IF pagesUrl # <<>> THEN pagesUrl[1] ELSE 0
    IN IF src = 0 THEN Ret(g, <<>>)
       ELSE IF ~IsStr(UrlOrId(g[src])) THEN Raise  \* urlparse of a non-string
       ELSE
         LET base_url == BaseUrl(Val(UrlOrId(g[src])))
             org_id == IF orgsUrl # <<>> THEN Get(g[src], "@id", Null) ELSE Null
             website_id == WebsiteId(base_url)
             website ==
               Dict({<<"@type", T("WebSite")>>,
                     <<"@id", Str(website_id)>>,
                     <<"url", Str(base_url)>>,
                     <<"name", Str(AfterLastSlashes(base_url))>>}
                    \cup (IF Truthy(org_id) THEN {<<"publisher", Ref(org_id)>>} ELSE {}))
             fix(i) == MatchesType(g[i], PageTypes) /\ NeedsIsPartOf(g[i], website_id)
             fixed_pages == SelectSeq(pages, fix)
         IN IF base_url = <<>> THEN Ret(g, <<>>)
            ELSE Ret(graph_append([i \in 1..Len(g) |->
                                     IF fix(i) THEN Put(g[i], "isPartOf", Ref(Str(website_id)))
                                     ELSE g[i]],
                                  website),
                     << [transform |-> "ensure_website_node",
                         detail |-> <<"Added missing WebSite node", website_id>>] >>
                     \o [j \in 1..Len(fixed_pages) |->
                           [transform |-> "ensure_website_node",
                            node_id |-> NodeId(g[fixed_pages[j]]),
                            detail |-> <<"Set WebPage.isPartOf", website_id>>]])

---------------------------------------------------------------------------
(* Transform 3: fix_about_placement *)

fix_about_placement(g) ==
  IF FindRaises(g) THEN Raise
  ELSE
    LET services == _find_nodes_by_type(g, ServiceTypes)
        pages == _find_nodes_by_type(g, PageTypes)
        \* svc.pop("about", None) removes the key; `about is not None` records it
        popped(i) == MatchesType(g[i], ServiceTypes) /\ Has(g[i], "about")
        removed(i) == ~IsNone(Get(g[i], "about", Null))
        hit == SelectSeq(services, removed)
        g1 == [i \in 1..Len(g) |-> IF popped(i) THEN Pop(g[i], "about") ELSE g[i]]
        moved_about ==
          Concat([j \in 1..Len(hit) |->
                    LET about == Val(g[hit[j]])["about"]
                    IN IF IsList(about) THEN Val(about) ELSE <<about>>])
        corr1 == [j \in 1..Len(hit) |->
                    [transform |-> "fix_about_placement",
                     node_id |-> NodeId(g[hit[j]]),
                     detail |-> <<"Removed 'about' from Service node">>]]
    IN IF moved_about # <<>> /\ pages # <<>>
       THEN LET page == g1[pages[1]]
                had == Get(page, "about", Arr(<<>>))
                existing == IF IsList(had) THEN Val(had)
                            ELSE IF Truthy(had) THEN <<had>> ELSE <<>>
            IN Ret([g1 EXCEPT ![pages[1]] = Put(page, "about", Arr(existing \o moved_about))],
                   Append(corr1,
                          [transform |-> "fix_about_placement",
                           node_id |-> NodeId(page),
                           detail |-> <<"Moved about entries to WebPage",
                                        ToString(Len(moved_about))>>]))
       ELSE Ret(g1, corr1)

---------------------------------------------------------------------------
(* Transform 4: set_main_entity *)

set_main_entity(g) ==
  IF FindRaises(g) THEN Raise
  ELSE
    LET pages == _find_nodes_by_type(g, {"WebPage", "ServicePage"})
        services == _find_nodes_by_type(g, ServiceTypes)
    IN IF pages = <<>> \/ services = <<>> THEN Ret(g, <<>>)
       ELSE
         LET service_id == Get(g[services[1]], "@id", Null)
             page == g[pages[1]]
             existing == Get(page, "mainEntity", Null)
         IN IF ~Truthy(service_id) THEN Ret(g, <<>>)
            ELSE IF Truthy(existing) /\ IsDict(existing)
                    /\ Get(existing, "@id", Null) = service_id
            THEN Ret(g, <<>>)
            ELSE Ret([g EXCEPT ![pages[1]] = Put(page, "mainEntity", Ref(service_id))],
                     << [transform |-> "set_main_entity",
                         node_id |-> NodeId(page),
                         detail |-> <<"Set WebPage.mainEntity", service_id>>] >>)

---------------------------------------------------------------------------
(* Transform 5: validate_properties *)

_VALID_PROPERTIES ==
  [t \in {"Organization", "LocalBusiness", "ProfessionalService", "Service",
          "WebSite", "WebPage", "ImageObject", "Thing"} |->
    CASE t = "Organization" ->
           {"name", "url", "logo", "description", "sameAs", "address", "telephone",
            "email", "foundingDate", "founder", "numberOfEmployees", "areaServed",
            "image", "identifier", "alternateName", "contactPoint", "member",
            "department", "subOrganization", "parentOrganization", "brand",
            "award", "knowsAbout", "slogan", "legalName", "taxID"}
      [] t = "LocalBusiness" ->
           {"name", "url", "logo", "description", "sameAs", "address", "telephone",
            "email", "foundingDate", "areaServed", "image", "identifier",
            "alternateName", "contactPoint", "parentOrganization", "brand",
            "openingHours", "openingHoursSpecification", "priceRange", "geo",
            "review", "aggregateRating", "hasOfferCatalog", "paymentAccepted",
            "currenciesAccepted", "menu", "servesCuisine"}
      [] t = "ProfessionalService" ->
           {"name", "url", "logo", "description", "sameAs", "address", "telephone",
            "email", "foundingDate", "areaServed", "image", "identifier",
            "alternateName", "contactPoint", "parentOrganization", "brand",
            "openingHours", "openingHoursSpecification", "priceRange", "geo",
            "review", "aggregateRating", "hasOfferCatalog", "serviceType",
            "knowsAbout", "slogan"}
      [] t = "Service" ->
           {"name", "url", "description", "sameAs", "image", "identifier",
            "provider", "serviceType", "areaServed", "offers", "hasOfferCatalog",
            "category", "serviceOutput", "serviceArea", "availableChannel",
            "termsOfService", "aggregateRating", "review", "brand",
            "alternateName"}
      [] t = "WebSite" ->
           {"name", "url", "description", "publisher", "potentialAction",
            "sameAs", "alternateName", "inLanguage"}
      [] t = "WebPage" ->
           {"name", "url", "description", "isPartOf", "mainEntity", "about",
            "breadcrumb", "primaryImageOfPage", "datePublished", "dateModified",
            "author", "inLanguage", "potentialAction", "sameAs", "significantLink",
            "speakable", "relatedLink", "lastReviewed", "reviewedBy"}
      [] t = "ImageObject" ->
           {"url", "contentUrl", "width", "height", "caption", "description",
            "name", "encodingFormat", "thumbnail"}
      [] t = "Thing" ->
           {"name", "url", "description", "sameAs", "identifier", "image",
            "alternateName"}]

\* _PROPERTY_FIXES renaming provider to parentOrganization instead of deleting it
_PROPERTY_FIXES_renaming ==
  [t \in {"Organization", "LocalBusiness", "ProfessionalService", "Service"} |->
    IF t = "Service" THEN [bad_prop |-> "about", replacement |-> ""]
    ELSE [bad_prop |-> "provider", replacement |-> "parentOrganization"]]

\* type -> the bad property and its replacement ("" for None)
_PROPERTY_FIXES ==
  [t \in {"Organization", "LocalBusiness", "ProfessionalService", "Service"} |->
    IF t = "Service" THEN [bad_prop |-> "about", replacement |-> ""]
    ELSE [bad_prop |-> "provider", replacement |-> ""]]

_META_KEYS == {"@context", "@type", "@id", "@graph", "@vocab", "@reverse", "@language"}

\* types = [node_type] if isinstance(node_type, str) else list(node_type)
TypesOf(node) ==
  LET node_type == Get(node, "@type", Str(<<>>))
  IN IF IsStr(node_type) THEN <<node_type>> ELSE ListOf(node_type)

\* `t in TABLE` for a string t; the key it names
InTable(t, table) == IsStr(t) /\ Len(Val(t)) = 1 /\ Val(t)[1] \in DOMAIN table
Name(t) == Val(t)[1]

RECURSIVE ApplyFixes(_, _)
\* the loop over types of "Check for fixable properties first"
ApplyFixes(node, types) ==
  IF types = <<>> THEN [node |-> node, corr |-> <<>>]
  ELSE
    LET t == Head(types)
        fx == _PROPERTY_FIXES[Name(t)]
        applies == InTable(t, _PROPERTY_FIXES) /\ Has(node, fx.bad_prop)
        renamed == applies /\ fx.replacement # "" /\ ~Has(node, fx.replacement)
        node1 == IF ~applies THEN node
                 ELSE IF renamed
                 THEN Put(Pop(node, fx.bad_prop), fx.replacement, Val(node)[fx.bad_prop])
                 ELSE Pop(node, fx.bad_prop)
        rest == ApplyFixes(node1, Tail(types))
    IN [node |-> rest.node,
        corr |-> (IF applies
                  THEN << [transform |-> "validate_properties",
                           node_id |-> NodeId(node1),
                           detail |-> IF renamed
                                      THEN <<"Replaced invalid", fx.bad_prop, fx.replacement, Name(t)>>
                                      ELSE <<"Removed invalid", fx.bad_prop, Name(t)>>] >>
                  ELSE <<>>) \o rest.corr]

\* The allowed keys of a node: the meta keys and the union over its known types.
ValidKeys(types) ==
  _META_KEYS \cup
  UNION {_VALID_PROPERTIES[Name(types[i])] :
           i \in {j \in 1..Len(types) : InTable(types[j], _VALID_PROPERTIES)}}

\* ValidateNode without the `if not matched_type: continue`: nodes of unknown
\* types are stripped down to their meta keys
ValidateNodeUnskipped(node) ==
  LET types == TypesOf(node)
      fx == ApplyFixes(node, types)
      valid == ValidKeys(types)
      invalid_keys == SelectSeq(Keys(fx.node), LAMBDA k : k \notin valid)
  IN [node |-> Obj([k \in DOMAIN Val(fx.node) \cap valid |-> Val(fx.node)[k]]),
      corr |-> fx.corr \o
               [j \in 1..Len(invalid_keys) |->
                  [transform |-> "validate_properties",
                   node_id |-> NodeId(fx.node),
                   detail |-> <<"Removed invalid property (not in schema.org spec)",
                                invalid_keys[j], [i \in 1..Len(types) |-> Val(types[i])]>>]]]

\* One iteration of the loop over the graph's nodes.
ValidateNode(node) ==
  LET types == TypesOf(node)
      matched_type == \E i \in 1..Len(types) : InTable(types[i], _VALID_PROPERTIES)
      fx == ApplyFixes(node, types)
      valid == ValidKeys(types)
      invalid_keys == SelectSeq(Keys(fx.node), LAMBDA k : k \notin valid)
  IN IF ~matched_type THEN [node |-> node, corr |-> <<>>]
     ELSE [node |-> Obj([k \in DOMAIN Val(fx.node) \cap valid |-> Val(fx.node)[k]]),
           corr |-> fx.corr \o
                    [j \in 1..Len(invalid_keys) |->
                       [transform |-> "validate_properties",
                        node_id |-> NodeId(fx.node),
                        detail |-> <<"Removed invalid property (not in schema.org spec)",
                                     invalid_keys[j], [i \in 1..Len(types) |-> Val(types[i])]>>]]]

\* validate_properties raises: node.get on a non-dict; list() of a number or None;
\* an unhashable type looked up in the table; "/".join(types) with a non-string.
ValidateNodeRaises(node) ==
  \/ ~IsDict(node)
  \/ LET node_type == Get(node, "@type", Str(<<>>))
     IN \/ ~IsStr(node_type) /\ ListRaises(node_type)
        \/ \E i \in 1..Len(TypesOf(node)) : ~Hashable(TypesOf(node)[i])
        \/ /\ \E i \in 1..Len(TypesOf(node)) : ~IsStr(TypesOf(node)[i])
           /\ \E i \in 1..Len(TypesOf(node)) : InTable(TypesOf(node)[i], _VALID_PROPERTIES)
           /\ DOMAIN Val(ApplyFixes(node, TypesOf(node)).node) \ ValidKeys(TypesOf(node)) # {}

validate_properties(g) ==
  IF \E i \in 1..Len(g) : ValidateNodeRaises(g[i]) THEN Raise
  ELSE Ret([i \in 1..Len(g) |-> ValidateNode(g[i]).node],
           Concat([i \in 1..Len(g) |-> ValidateNode(g[i]).corr]))

---------------------------------------------------------------------------
(* Transform 6: validate_id_refs *)

\* {node.get("@id") for node in graph if node.get("@id")}
DefinedIds(g) ==
  {Get(g[i], "@id", Null) : i \in {j \in 1..Len(g) : Truthy(Get(g[j], "@id", Null))}}

\* list(obj.keys()) == ["@id"]
IsStub(obj) == IsDict(obj) /\ DOMAIN Val(obj) = {"@id"}

RECURSIVE check_refs(_, _, _)
\* the corrections check_refs appends for obj, found at parent_path
check_refs(obj, parent_path, defined_ids) ==
  IF IsDict(obj)
  THEN (IF IsStub(obj) /\ Val(obj)["@id"] \notin defined_ids
        THEN << [transform |-> "validate_id_refs",
                 detail |-> <<"Dangling @id reference", Val(obj)["@id"], parent_path>>] >>
        ELSE <<>>)
       \o Concat([j \in 1..Len(Keys(obj)) |->
                    check_refs(Val(obj)[Keys(obj)[j]],
                               parent_path \o <<".", Keys(obj)[j]>>, defined_ids)])
  ELSE IF IsList(obj)
  THEN Concat([i \in 1..Len(Val(obj)) |->
                 check_refs(Val(obj)[i], parent_path \o <<"[", ToString(i), "]">>, defined_ids)])
  ELSE <<>>

RECURSIVE CheckRefsRaises(_)
\* `obj["@id"] not in defined_ids` hashes the @id: TypeError for a list or a dict
CheckRefsRaises(obj) ==
  IF IsDict(obj)
  THEN \/ IsStub(obj) /\ ~Hashable(Val(obj)["@id"])
       \/ \E k \in DOMAIN Val(obj) : CheckRefsRaises(Val(obj)[k])
  ELSE IF IsList(obj) THEN \E i \in 1..Len(Val(obj)) : CheckRefsRaises(Val(obj)[i])
  ELSE FALSE

\* validate_id_refs deleting the properties that hold a dangling stub instead of
\* only reporting them
validate_id_refs_pruning(g) ==
  IF \/ \E i \in 1..Len(g) : ~IsDict(g[i])
     \/ \E i \in 1..Len(g) : Truthy(Get(g[i], "@id", Null)) /\ ~Hashable(Get(g[i], "@id", Null))
     \/ \E i \in 1..Len(g) : CheckRefsRaises(g[i])
  THEN Raise
  ELSE Ret([i \in 1..Len(g) |->
              Obj([k \in {x \in DOMAIN Val(g[i]) :
                            ~(IsStub(Val(g[i])[x])
                              /\ Val(Val(g[i])[x])["@id"] \notin DefinedIds(g))} |->
                     Val(g[i])[k]])],
           Concat([i \in 1..Len(g) |->
                     check_refs(g[i], <<Get(g[i], "@id", Str(<<"root">>))>>, DefinedIds(g))]))

validate_id_refs(g) ==
  IF \/ \E i \in 1..Len(g) : ~IsDict(g[i])
     \/ \E i \in 1..Len(g) : Truthy(Get(g[i], "@id", Null)) /\ ~Hashable(Get(g[i], "@id", Null))
     \/ \E i \in 1..Len(g) : CheckRefsRaises(g[i])
  THEN Raise
  ELSE Ret(g, Concat([i \in 1..Len(g) |->
                        check_refs(g[i], <<Get(g[i], "@id", Str(<<"root">>))>>, DefinedIds(g))]))

---------------------------------------------------------------------------
(* Pipeline *)

\* TRANSFORMS with the reference check ahead of the property validation
TRANSFORMS_reordered ==
  << "normalize_logo", "ensure_website_node", "fix_about_placement",
     "set_main_entity", "validate_id_refs", "validate_properties" >>

TRANSFORMS ==
  << "normalize_logo", "ensure_website_node", "fix_about_placement",
     "set_main_entity", "validate_properties", "validate_id_refs" >>

\* transform(graph) for the transform of that name
Apply(transform, g) ==
  CASE transform = "normalize_logo" -> normalize_logo(g)
    [] transform = "ensure_website_node" -> ensure_website_node(g)
    [] transform = "fix_about_placement" -> fix_about_placement(g)
    [] transform = "set_main_entity" -> set_main_entity(g)
    [] transform = "validate_properties" -> validate_properties(g)
    [] transform = "validate_id_refs" -> validate_id_refs(g)

RECURSIVE RunFrom(_, _, _)
\* the loop of run_pipeline from TRANSFORMS[k] on
RunFrom(k, g, all) ==
  IF k > Len(TRANSFORMS) THEN Ret(g, all)
  ELSE LET r == Apply(TRANSFORMS[k], g)
       IN IF r.err THEN Raise ELSE RunFrom(k + 1, r.graph, all \o r.corr)

\* run_pipeline(jsonld): [doc, corr, err]
run_pipeline(doc) ==
  IF ExtractRaises(doc) THEN [doc |-> Null, corr |-> <<>>, err |-> TRUE]
  ELSE LET r == RunFrom(1, _extract_graph(doc), <<>>)
       IN IF r.err THEN [doc |-> Null, corr |-> <<>>, err |-> TRUE]
          ELSE [doc |-> _wrap_graph(r.graph, doc), corr |-> r.corr, err |-> FALSE]

---------------------------------------------------------------------------
(* The inputs the model is run on *)

\* The largest number of nodes of an input graph.
MaxNodes == 2

acme == <<"https", ":", "//", "acme.com">>
other == <<"https", ":", "//", "other.org">>
AcmeId(frag) == Str(acme \o <<"/", frag>>)
Text(tok) == Str(<<tok>>)

\* The nodes input graphs are made of: well-formed nodes of the types the
\* transforms look at, single- and multi-typed, with and without url/@id that
\* urlparse can split, with about/isPartOf/provider in their several forms and
\* with reference stubs at several depths; and values a JSON document may hold
\* in a node's place or in @type/url that the code does not expect.
NodePool ==
  { \* the organization of the documentation's example
    Dict({<<"@type", T("Organization")>>, <<"@id", AcmeId("#org")>>, <<"url", Str(acme)>>}),
    \* a url without scheme and host beside an absolute @id
    Dict({<<"@type", T("Organization")>>, <<"@id", AcmeId("#org")>>, <<"url", Text("acme.com")>>}),
    \* an organization whose @id is the id a synthesized WebSite gets
    Dict({<<"@type", T("Organization")>>, <<"@id", AcmeId("#website")>>, <<"logo", Text("logo.png")>>}),
    \* an empty url and no @id; a url without scheme and host and a fragment-only @id
    Dict({<<"@type", T("Organization")>>, <<"url", Str(<<>>)>>, <<"name", Text("Acme")>>}),
    Dict({<<"@type", T("Organization")>>, <<"@id", Text("#org")>>, <<"url", Text("acme.com")>>}),
    \* organization and service family at once; no url, a dangling provider
    Dict({<<"@type", T("ProfessionalService")>>, <<"about", Text("FinTech")>>,
          <<"provider", Ref(AcmeId("#missing"))>>}),
    Dict({<<"@type", T("Service")>>, <<"@id", AcmeId("#svc")>>,
          <<"about", Arr(<<Dict({<<"name", Text("FinTech")>>})>>)>>,
          <<"provider", Ref(AcmeId("#org"))>>}),
    Dict({<<"@type", T("FinancialService")>>, <<"about", Arr(<<>>)>>}),
    \* an about that is JSON null
    Dict({<<"@type", T("Service")>>, <<"@id", AcmeId("#svc")>>, <<"name", Text("n")>>,
          <<"about", Null>>}),
    Dict({<<"@type", T("WebPage")>>, <<"@id", AcmeId("#page")>>,
          <<"url", Str(other \o <<"/", "page">>)>>}),
    Dict({<<"@type", T("WebPage")>>, <<"about", Text("p")>>,
          <<"isPartOf", Ref(AcmeId("#website"))>>}),
    Dict({<<"@type", T("AboutPage")>>, <<"about", Str(<<>>)>>, <<"isPartOf", Text("site")>>}),
    Dict({<<"@type", T("WebPage")>>, <<"about", Arr(<<Text("p")>>)>>,
          <<"mainEntity", Ref(AcmeId("#svc"))>>}),
    \* several of the types on which provider is invalid; a logo that is an object
    Dict({<<"@type", Arr(<<T("Organization"), T("LocalBusiness")>>)>>,
          <<"logo", Dict({<<"@type", T("ImageObject")>>, <<"url", Text("logo.png")>>})>>,
          <<"provider", Ref(AcmeId("#org"))>>}),
    \* a service-family node that is also page-like
    Dict({<<"@type", Arr(<<T("ProfessionalService"), T("WebPage")>>)>>, <<"about", Text("x")>>}),
    Dict({<<"@type", Arr(<<T("Service"), T("WebPage")>>)>>, <<"about", Arr(<<Text("x")>>)>>}),
    Dict({<<"@type", Arr(<<T("ServicePage"), T("Service")>>)>>, <<"@id", Text("#svc")>>}),
    Dict({<<"@type", T("WebSite")>>, <<"@id", AcmeId("#website")>>, <<"url", Str(acme)>>}),
    \* stubs inside an object inside a list: dangling, resolvable, and with a second key
    Dict({<<"@type", T("Thing")>>,
          <<"image", Dict({<<"@type", T("ImageObject")>>,
                           <<"thumbnail", Arr(<<Ref(AcmeId("#missing")), Ref(AcmeId("#org")),
                                                Dict({<<"@id", AcmeId("#missing")>>,
                                                      <<"name", Text("n")>>})>>)>>})>>,
          <<"foo", Ref(AcmeId("#missing"))>>}),
    \* a type the rule table does not know
    Dict({<<"@type", T("Person")>>, <<"author", Ref(AcmeId("#svc"))>>, <<"foo", Text("bar")>>}),
    \* a top-level node that is only an empty @id
    Dict({<<"@id", Str(<<>>)>>}),
    \* not a node at all, an @type that is a number, a url that is a number
    Num(5),
    Dict({<<"@type", Num(5)>>}),
    Dict({<<"@type", T("Organization")>>, <<"url", Num(5)>>}),
    \* a list and a number among the types, a stub whose @id is a list
    Dict({<<"@type", Arr(<<Arr(<<T("Thing")>>)>>)>>}),
    Dict({<<"@type", Arr(<<Num(5), T("Organization")>>)>>, <<"foo", Text("bar")>>}),
    Dict({<<"@type", T("Thing")>>, <<"name", Ref(Arr(<<>>))>>}) }

\* The node lists of at most MaxNodes nodes.
Graphs == UNION {[1..n -> NodePool] : n \in 0..MaxNodes}

Context == Text("https://schema.org")

\* The documents run_pipeline is called with: a list of nodes, a @graph envelope
\* with a sibling @context, a bare node; an envelope whose @graph is not a list;
\* a scalar.
Inputs ==
  {Arr(g) : g \in Graphs}
  \cup {Dict({<<"@context", Context>>, <<"@graph", Arr(g)>>}) : g \in Graphs}
  \cup {n \in NodePool : IsDict(n)}
  \cup {Dict({<<"@context", Context>>, <<"@graph", x>>}) :
          x \in {Num(5), Text("x"), Dict({<<"@type", T("Thing")>>})}}
  \cup {Num(5), Null}

---------------------------------------------------------------------------
(* run_pipeline as a state machine: one step per statement of its loop *)

\* the value of pc after the transform of that name returned
After(transform) ==
  LET k == CHOOSE i \in 1..Len(TRANSFORMS) : TRANSFORMS[i] = transform
  IN IF entry # "run_pipeline" THEN "returned"
     ELSE IF k = Len(TRANSFORMS) THEN "wrap" ELSE TRANSFORMS[k + 1]

Init ==
  /\ jsonld \in Inputs
  /\ entry = "run_pipeline"
  /\ pc = "extract"
  /\ graph = <<>>
  /\ graph_in = <<>>
  /\ corrections = <<>>
  /\ all_corrections = <<>>
  /\ fixed = Null
  /\ text = <<>>
  /\ concepts = Null
  /\ arg = jsonld
  /\ shared = {}
  /\ flattened = <<>>
  /\ job = <<>>
  /\ task = "none"
  /\ db = <<>>

\* graph = _extract_graph(copy.deepcopy(jsonld))
Extract ==
  /\ pc = "extract"
  /\ IF ExtractRaises(arg)
     THEN pc' = "raised" /\ UNCHANGED <<graph, shared>>
     ELSE /\ pc' = TRANSFORMS[1]
          /\ graph' = _extract_graph(arg)
          /\ shared' = ExtractShares(deepcopy(arg))
  /\ UNCHANGED <<jsonld, graph_in, corrections, all_corrections, entry, fixed, text, concepts,
                 arg, flattened, job, task, db>>

\* graph, corrections = transform(graph); all_corrections.extend(corrections)
Transform(transform, r) ==
  /\ pc = transform
  /\ graph_in' = graph
  /\ IF r.err
     THEN pc' = "raised" /\ UNCHANGED <<graph, corrections, all_corrections, arg>>
     ELSE /\ pc' = After(transform)
          /\ graph' = r.graph
          /\ corrections' = r.corr
          /\ all_corrections' = all_corrections \o r.corr
          /\ arg' = WriteThrough(arg, r.graph, shared)
  /\ UNCHANGED <<jsonld, entry, fixed, text, concepts, shared, flattened,
                 job, task, db>>

NormalizeLogo == Transform("normalize_logo", normalize_logo(graph))
EnsureWebsiteNode == Transform("ensure_website_node", ensure_website_node(graph))
FixAboutPlacement == Transform("fix_about_placement", fix_about_placement(graph))
SetMainEntity == Transform("set_main_entity", set_main_entity(graph))
ValidateProperties == Transform("validate_properties", validate_properties(graph))
ValidateIdRefs == Transform("validate_id_refs", validate_id_refs(graph))

\* return _wrap_graph(graph, jsonld), all_corrections
Wrap ==
  /\ pc = "wrap"
  /\ fixed' = _wrap_graph(graph, arg)
  /\ shared' = WrapShares(shared, arg)
  /\ arg' = WrapWrites(arg, graph)
  /\ pc' = "done"
  /\ UNCHANGED <<jsonld, graph, graph_in, corrections, all_corrections, entry, text, concepts,
                 flattened, job, task, db>>

Next ==
  \/ Extract
  \/ NormalizeLogo
  \/ EnsureWebsiteNode
  \/ FixAboutPlacement
  \/ SetMainEntity
  \/ ValidateProperties
  \/ ValidateIdRefs
  \/ Wrap

Spec == Init /\ [][Next]_vars

---------------------------------------------------------------------------
(* One transform called on its own on a node list *)

InitTransform ==
  /\ graph \in Graphs
  /\ jsonld = Arr(graph)
  /\ entry \in {TRANSFORMS[i] : i \in 1..Len(TRANSFORMS)}
  /\ pc = entry
  /\ graph_in = <<>>
  /\ corrections = <<>>
  /\ all_corrections = <<>>
  /\ fixed = Null
  /\ text = <<>>
  /\ concepts = Null
  /\ arg = jsonld
  /\ shared = {"container", "nodes"}
  /\ flattened = <<>>
  /\ job = <<>>
  /\ task = "none"
  /\ db = <<>>

NextTransform ==
  \/ NormalizeLogo
  \/ EnsureWebsiteNode
  \/ FixAboutPlacement
  \/ SetMainEntity
  \/ ValidateProperties
  \/ ValidateIdRefs

TransformSpec == InitTransform /\ [][NextTransform]_vars

\* The transform of that name has just returned: graph_in is what it was given,
\* graph and corrections what it returned.
Returned(transform) ==
  \/ entry = transform /\ pc = "returned"
  \/ entry = "run_pipeline" /\ transform \in {TRANSFORMS[i] : i \in 1..Len(TRANSFORMS)}
     /\ pc = After(transform)

---------------------------------------------------------------------------
(* Text extraction. A text is a sequence of tokens: the code fence, the     *)
(* tag "json", the newline "\n", the heading words "Suggested Concepts",   *)
(* the bold marker "**", ":", prose, and the lexemes of JSON texts.        *)

\* three backticks
Fence == "fence"
NL == "\n"
Heading == "Suggested Concepts"

\* \s
Space == {NL}
IsSpace(tok) == tok \in Space

\* The first position from i on whose token is not one of `class`
\* (Len(txt) + 1 when every token to the end is): a greedy `[...]*`.
Skip(txt, i, class) ==
  IF \E j \in i..Len(txt) : txt[j] \notin class
  THEN CHOOSE j \in i..Len(txt) : txt[j] \notin class /\ \A m \in i..(j-1) : txt[m] \in class
  ELSE Len(txt) + 1

\* ```json\s*\n matched at position i: the position after it (0: no match)
OpenAt(txt, i) ==
  IF i + 2 <= Len(txt) /\ txt[i] = Fence /\ txt[i+1] = "json" /\ txt[i+2] = NL
  THEN Skip(txt, i + 2, Space) ELSE 0

\* ```json\s*\n(.*?)``` matched at position i: the captured group txt[from..to]
\* and the position `next` after the match
JsonBlockAt(txt, i) ==
  LET from == OpenAt(txt, i)
      closed == from # 0 /\ \E j \in from..Len(txt) : txt[j] = Fence
      close == CHOOSE j \in from..Len(txt) :
                 txt[j] = Fence /\ \A m \in from..(j-1) : txt[m] # Fence
  IN IF closed THEN [ok |-> TRUE, from |-> from, to |-> close - 1, next |-> close + 1]
     ELSE [ok |-> FALSE, from |-> 0, to |-> 0, next |-> 0]

\* ```json\s*\n(\[.*?\])\s*``` matched at position i: the group starts with "["
\* and ends at the first "]" after which only white space precedes a fence
ArrayBlockAt(txt, i) ==
  LET from == OpenAt(txt, i)
      ends(e) == /\ txt[e] = "]"
                 /\ Skip(txt, e + 1, Space) <= Len(txt)
                 /\ txt[Skip(txt, e + 1, Space)] = Fence
      found == /\ from # 0 /\ from <= Len(txt) /\ txt[from] = "["
               /\ \E e \in (from+1)..Len(txt) : ends(e)
      to == CHOOSE e \in (from+1)..Len(txt) : ends(e) /\ \A m \in (from+1)..(e-1) : ~ends(m)
  IN IF found
     THEN [ok |-> TRUE, from |-> from, to |-> to, next |-> Skip(txt, to + 1, Space) + 1]
     ELSE [ok |-> FALSE, from |-> 0, to |-> 0, next |-> 0]

RECURSIVE FindAllJson(_, _)
\* re.findall(r"```json\s*\n(.*?)```", text, re.DOTALL) from position i on
FindAllJson(txt, i) ==
  IF \E j \in i..Len(txt) : JsonBlockAt(txt, j).ok
  THEN LET j == CHOOSE j \in i..Len(txt) :
                  JsonBlockAt(txt, j).ok /\ \A m \in i..(j-1) : ~JsonBlockAt(txt, m).ok
           b == JsonBlockAt(txt, j)
       IN <<SubSeq(txt, b.from, b.to)>> \o FindAllJson(txt, b.next)
  ELSE <<>>

RECURSIVE FindAllArrays(_, _)
\* re.findall(r"```json\s*\n(\[.*?\])\s*```", text, re.DOTALL) from position i on
FindAllArrays(txt, i) ==
  IF \E j \in i..Len(txt) : ArrayBlockAt(txt, j).ok
  THEN LET j == CHOOSE j \in i..Len(txt) :
                  ArrayBlockAt(txt, j).ok /\ \A m \in i..(j-1) : ~ArrayBlockAt(txt, m).ok
           b == ArrayBlockAt(txt, j)
       IN <<SubSeq(txt, b.from, b.to)>> \o FindAllArrays(txt, b.next)
  ELSE <<>>

\* Suggested[_ ]Concepts(?:\*\*)?[:\s]* followed by the array pattern, matched at
\* a heading at position h (the optional "#", "5)" and "**" before the words
\* only move the start of the match)
HeadingArrayAt(txt, h) ==
  LET afterBold == IF h + 1 <= Len(txt) /\ txt[h+1] = "**" THEN h + 2 ELSE h + 1
      k == Skip(txt, afterBold, {":"} \cup Space)
  IN IF txt[h] = Heading /\ k <= Len(txt) THEN ArrayBlockAt(txt, k)
     ELSE [ok |-> FALSE, from |-> 0, to |-> 0, next |-> 0]

\* re.search(pattern, text, ...): the leftmost match, as its group (ok: a match)
SearchHeadingArray(txt) ==
  IF \E h \in 1..Len(txt) : HeadingArrayAt(txt, h).ok
  THEN LET h == CHOOSE h \in 1..Len(txt) :
                  HeadingArrayAt(txt, h).ok /\ \A m \in 1..(h-1) : ~HeadingArrayAt(txt, m).ok
       IN [ok |-> TRUE, group |-> SubSeq(txt, HeadingArrayAt(txt, h).from, HeadingArrayAt(txt, h).to)]
  ELSE [ok |-> FALSE, group |-> <<>>]

\* json.loads. The lexemes of a JSON text: "[", "]", "{", "}", ",", ":", string
\* literals, number literals, and an integer literal of more than 4300 digits.
StringLexemes ==
  [lex \in {"\"A\"", "\"B\"", "\"@type\""} |->
     CASE lex = "\"A\"" -> "A" [] lex = "\"B\"" -> "B" [] lex = "\"@type\"" -> "@type"]
NumberLexemes == {"1"}
BigInt == "9...9"

\* What the decoder gives for a prefix of the lexemes: a value and the lexemes
\* left, or the exception raised ("" for none).
Parsed(v, rest) == [exc |-> "", val |-> v, rest |-> rest]
Fails(exc) == [exc |-> exc, val |-> Null, rest |-> <<>>]

RECURSIVE ParseValue(_), ParseElements(_, _), ParseMembers(_, _)
ParseValue(lex) ==
  IF lex = <<>> THEN Fails("JSONDecodeError")
  ELSE CASE Head(lex) \in DOMAIN StringLexemes ->
              Parsed(Str(<<StringLexemes[Head(lex)]>>), Tail(lex))
         [] Head(lex) \in NumberLexemes -> Parsed(Num(1), Tail(lex))
         \* int() of the digits: ValueError, not a JSONDecodeError
         [] Head(lex) = BigInt -> Fails("ValueError")
         [] Head(lex) = "[" ->
              IF Len(lex) >= 2 /\ lex[2] = "]" THEN Parsed(Arr(<<>>), SubSeq(lex, 3, Len(lex)))
              ELSE ParseElements(Tail(lex), <<>>)
         [] Head(lex) = "{" ->
              IF Len(lex) >= 2 /\ lex[2] = "}" THEN Parsed(EmptyObj, SubSeq(lex, 3, Len(lex)))
              ELSE ParseMembers(Tail(lex), EmptyObj)
         [] OTHER -> Fails("JSONDecodeError")

\* the elements of an array after "[" or ",", values so far the elements read
ParseElements(lex, values) ==
  LET v == ParseValue(lex)
  IN IF v.exc # "" THEN v
     ELSE IF v.rest = <<>> THEN Fails("JSONDecodeError")
     ELSE IF Head(v.rest) = "," THEN ParseElements(Tail(v.rest), Append(values, v.val))
     ELSE IF Head(v.rest) = "]" THEN Parsed(Arr(Append(values, v.val)), Tail(v.rest))
     ELSE Fails("JSONDecodeError")

\* the members of an object after "{" or ",": a later member replaces an earlier
\* one of the same name
ParseMembers(lex, obj) ==
  IF Len(lex) < 2 \/ Head(lex) \notin DOMAIN StringLexemes \/ lex[2] # ":"
  THEN Fails("JSONDecodeError")
  ELSE LET v == ParseValue(SubSeq(lex, 3, Len(lex)))
           obj1 == Put(obj, StringLexemes[Head(lex)], v.val)
       IN IF v.exc # "" THEN v
          ELSE IF v.rest = <<>> THEN Fails("JSONDecodeError")
          ELSE IF Head(v.rest) = "," THEN ParseMembers(Tail(v.rest), obj1)
          ELSE IF Head(v.rest) = "}" THEN Parsed(obj1, Tail(v.rest))
          ELSE Fails("JSONDecodeError")

\* json.loads(s): white space between lexemes is skipped, anything after the
\* value is "Extra data"
json_loads(s) ==
  LET v == ParseValue(SelectSeq(s, LAMBDA tok : ~IsSpace(tok)))
  IN IF v.exc = "" /\ v.rest # <<>> THEN Fails("JSONDecodeError") ELSE v

\* The heuristic of parse_jsonld_from_llm_response: a dict with @context, @graph
\* or @type, or a list with a dict that has @type.
IsJsonLd(obj) ==
  \/ IsDict(obj) /\ \E k \in {"@context", "@graph", "@type"} : Has(obj, k)
  \/ IsList(obj) /\ \E i \in 1..Len(Val(obj)) : IsDict(Val(obj)[i]) /\ Has(Val(obj)[i], "@type")

\* What a parse function returns: its value (Null for None), or an exception.
Returns(v) == [val |-> v, err |-> FALSE]
Raises == [val |-> Null, err |-> TRUE]

RECURSIVE ScanJsonLd(_)
\* the loop `for match in matches` of parse_jsonld_from_llm_response
ScanJsonLd(matches) ==
  IF matches = <<>> THEN Returns(Null)
  ELSE LET obj == json_loads(Head(matches))
       IN IF obj.exc = "JSONDecodeError" THEN ScanJsonLd(Tail(matches))
          ELSE IF obj.exc # "" THEN Raises
          ELSE IF IsJsonLd(obj.val) THEN Returns(obj.val)
          ELSE ScanJsonLd(Tail(matches))

parse_jsonld_from_llm_response(txt) == ScanJsonLd(FindAllJson(txt, 1))

RECURSIVE ScanArrays(_)
\* the loop `for arr_str in arrays` of parse_suggested_concepts
ScanArrays(arrays) ==
  IF arrays = <<>> THEN Returns(Arr(<<>>))
  ELSE LET arr == json_loads(Head(arrays))
       IN IF arr.exc = "JSONDecodeError" THEN ScanArrays(Tail(arrays))
          ELSE IF arr.exc # "" THEN Raises
          ELSE IF IsList(arr.val) /\ \A i \in 1..Len(Val(arr.val)) : IsStr(Val(arr.val)[i])
          THEN Returns(arr.val)
          ELSE ScanArrays(Tail(arrays))

parse_suggested_concepts(txt) ==
  LET match == SearchHeadingArray(txt)
      arr == json_loads(match.group)
  IN IF match.ok /\ arr.exc = "" THEN Returns(arr.val)
     ELSE IF match.ok /\ arr.exc # "JSONDecodeError" THEN Raises
     ELSE ScanArrays(FindAllArrays(txt, 1))

---------------------------------------------------------------------------
(* The texts the parse functions are run on *)

\* The largest number of segments of a text.
MaxSegments == 3

\* A fenced block tagged json, with its closing fence.
Block(content) == <<Fence, "json", NL>> \o content \o <<NL, Fence, NL>>

\* The segments texts are made of: the heading plain and in the bold form with
\* the colon inside the bold markers, prose, closed json blocks holding an array
\* of strings, an array with a number and a nested array, a JSON-LD object, a
\* list with a JSON-LD object, a malformed array, an array with an integer of
\* more than 4300 digits, and a json block whose closing fence is missing.
SegmentPool ==
  { <<Heading, ":", NL>>,
    <<"**", Heading, ":", "**", NL>>,
    <<"prose", NL>>,
    Block(<<"[", "\"A\"", ",", "\"B\"", "]">>),
    Block(<<"[", "1", ",", "[", "\"A\"", "]", "]">>),
    Block(<<"{", "\"@type\"", ":", "\"A\"", "}">>),
    Block(<<"[", "{", "\"@type\"", ":", "\"B\"", "}", "]">>),
    Block(<<"[", "prose">>),
    Block(<<"[", BigInt, "]">>),
    <<Fence, "json", NL, "{", "\"@type\"", ":", "\"B\"", "}", NL>> }

\* The texts of at most MaxSegments segments.
Texts == {Concat(ss) : ss \in UNION {[1..n -> SegmentPool] : n \in 0..MaxSegments}}

---------------------------------------------------------------------------
(* One parse function called on a text *)

InitParse ==
  /\ text \in Texts
  /\ entry \in {"parse_jsonld_from_llm_response", "parse_suggested_concepts"}
  /\ pc = entry
  /\ jsonld = Null
  /\ concepts = Null
  /\ graph = <<>>
  /\ graph_in = <<>>
  /\ corrections = <<>>
  /\ all_corrections = <<>>
  /\ fixed = Null
  /\ arg = Null
  /\ shared = {}
  /\ flattened = <<>>
  /\ job = <<>>
  /\ task = "none"
  /\ db = <<>>

\* jsonld = schema_fix.parse_jsonld_from_llm_response(llm_response)
ParseJsonLd ==
  /\ pc = "parse_jsonld_from_llm_response"
  /\ LET r == parse_jsonld_from_llm_response(text)
     IN IF r.err THEN pc' = "raised" /\ UNCHANGED jsonld
        ELSE pc' = "returned" /\ jsonld' = r.val
  /\ UNCHANGED <<graph, graph_in, corrections, all_corrections, entry, fixed, text, concepts,
                 arg, shared, flattened, job, task, db>>

\* suggested_concepts = schema_fix.parse_suggested_concepts(llm_response)
ParseSuggestedConcepts ==
  /\ pc = "parse_suggested_concepts"
  /\ LET r == parse_suggested_concepts(text)
     IN IF r.err THEN pc' = "raised" /\ UNCHANGED concepts
        ELSE pc' = "returned" /\ concepts' = r.val
  /\ UNCHANGED <<jsonld, graph, graph_in, corrections, all_corrections, entry, fixed, text,
                 arg, shared, flattened, job, task, db>>

NextParse ==
  \/ ParseJsonLd
  \/ ParseSuggestedConcepts

ParseSpec == InitParse /\ [][NextParse]_vars

---------------------------------------------------------------------------
(* backend/app/auditor/flatten.py: the prose rendering of a graph. A Python  *)
(* str is a sequence of tokens; "." is always a token of its own, so that    *)
(* rstrip(".") is the removal of the trailing "." tokens.                    *)

RECURSIVE Join(_, _)
\* sep.join(parts) for strings given as token sequences
Join(parts, sep) ==
  IF parts = <<>> THEN <<>>
  ELSE IF Len(parts) = 1 THEN parts[1]
  ELSE parts[1] \o <<sep>> \o Join(Tail(parts), sep)

RECURSIVE repr(_)
\* repr(v) of a JSON value: strings quoted, containers spelled out
repr(v) ==
  CASE IsStr(v) -> <<"'">> \o Val(v) \o <<"'">>
    [] Kind(v) = "num" -> <<ToString(Val(v))>>
    [] IsNone(v) -> <<"None">>
    [] IsList(v) ->
         <<"[">> \o Join([i \in 1..Len(Val(v)) |-> repr(Val(v)[i])], ", ") \o <<"]">>
    [] IsDict(v) ->
         <<"{">> \o Join([i \in 1..Len(Keys(v)) |->
                           <<"'", Keys(v)[i], "'", ": ">> \o repr(Val(v)[Keys(v)[i]])], ", ")
         \o <<"}">>

\* str(v), and what an f-string puts for {v}
str(v) == IF IsStr(v) THEN Val(v) ELSE repr(v)

RECURSIVE rstrip(_)
\* s.rstrip("."), s a token sequence
rstrip(s) ==
  IF s # <<>> /\ s[Len(s)] = "." THEN rstrip(SubSeq(s, 1, Len(s) - 1)) ELSE s

\* d.get(k) on a dict d
GetOrNone(d, k) == Get(d, k, Null)

\* the parts list _get builds from a list value: strings as they are, dicts by
\* name, @id or their text, anything else skipped
GetParts(val) ==
  LET kept == SelectSeq(Val(val), LAMBDA item : IsStr(item) \/ IsDict(item))
  IN [i \in 1..Len(kept) |->
        IF IsStr(kept[i]) THEN kept[i]
        ELSE Or(Or(GetOrNone(kept[i], "name"), GetOrNone(kept[i], "@id")), Str(str(kept[i])))]

\* ", ".join(parts) raises TypeError for a part that is not a string
JoinRaises(parts) == \E i \in 1..Len(parts) : ~IsStr(parts[i])

\* _get(node, key, default) raises
_getRaises(node, key) ==
  LET val == Get(node, key, Str(<<>>))
  IN IsList(val) /\ JoinRaises(GetParts(val))

\* _get(node, key, default): the value returned, a string unless a nested name,
\* url or @id is something else
_get(node, key, default) ==
  LET val == Get(node, key, Str(default))
  IN IF IsDict(val)
     THEN Or(Or(Or(GetOrNone(val, "name"), GetOrNone(val, "url")), GetOrNone(val, "@id")),
             Str(str(val)))
     ELSE IF IsList(val)
     THEN Str(Join([i \in 1..Len(GetParts(val)) |-> Val(GetParts(val)[i])], ", "))
     ELSE IF Truthy(val) THEN Str(str(val)) ELSE Str(default)

\* _node_type(node) raises: ", ".join(t) on a list with an element that is not
\* a string
_node_typeRaises(node) ==
  LET t == Get(node, "@type", Str(<<>>))
  IN IsList(t) /\ JoinRaises(Val(t))

\* _node_type(node), as a token sequence
_node_type(node) ==
  LET t == Get(node, "@type", Str(<<>>))
  IN IF IsStr(t) THEN Val(t)
     ELSE IF IsList(t) THEN Join([i \in 1..Len(Val(t)) |-> Val(Val(t)[i])], ", ")
     ELSE <<>>

\* _about_labels(node): the names of the dict items that have a truthy name and
\* the string items
_about_labels(node) ==
  LET got == Get(node, "about", Arr(<<>>))
      about == IF IsList(got) THEN Val(got) ELSE <<got>>
      named(item) == IF IsDict(item) THEN Truthy(Get(item, "name", Str(<<>>))) ELSE IsStr(item)
      kept == SelectSeq(about, named)
  IN [i \in 1..Len(kept) |-> IF IsDict(kept[i]) THEN Val(kept[i])["name"] ELSE kept[i]]

\* flatten._extract_graph: the schema_fix one without its docstring
flatten_extract_graph(data) == _extract_graph(data)

\* The type names of the four buckets flatten_graph renders, and of the
\* websites bucket it builds and leaves unused.
OrgBucket == {"Organization", "ProfessionalService", "Corporation", "LocalBusiness"}
WebsiteBucket == {"WebSite"}
PageBucket ==
  {"WebPage", "ServicePage", "AboutPage", "ContactPage", "CollectionPage", "ItemPage", "FAQPage"}
ServiceBucket == {"Service", "FinancialService"}
BlogBucket == {"BlogPosting", "Article", "NewsArticle"}

\* _node_type(n) in (...)
InBucket(n, bucket) == \E tn \in bucket : _node_type(n) = <<tn>>

\* [n for n in graph if _node_type(n) in (...)]
Bucket(g, bucket) == SelectSeq(g, LAMBDA n : InBucket(n, bucket))

\* f"... {', '.join(labels)}." for the about labels of a node, if any
LabelSentence(lead, node) ==
  LET labels == _about_labels(node)
  IN IF labels = <<>> THEN <<>>
     ELSE << lead \o Join([i \in 1..Len(labels) |-> Val(labels[i])], ", ") \o <<".">> >>

\* the sentences of the loop body for one organization
OrgSentences(org) ==
  LET name == _get(org, "name", <<"the organization">>)
      url == _get(org, "url", <<>>)
      desc == _get(org, "description", <<>>)
      area == _get(org, "areaServed", <<>>)
      s == str(name) \o <<" is a ">> \o _node_type(org)
           \o (IF Truthy(url) THEN <<" located at ">> \o str(url) ELSE <<>>)
           \o (IF Truthy(desc) THEN <<". ">> \o str(desc) ELSE <<>>)
           \o (IF Truthy(area) THEN <<". They serve ">> \o str(area) ELSE <<>>)
  IN << rstrip(s) \o <<".">> >> \o LabelSentence(str(name) \o <<" relates to ">>, org)

\* the names of the offers of a service's catalog
OfferNames(svc) ==
  LET catalog == GetOrNone(svc, "hasOfferCatalog")
      offers == IF IsDict(catalog) THEN ListOf(Get(catalog, "itemListElement", Arr(<<>>)))
                ELSE <<>>
      dicts == SelectSeq(offers, IsDict)
  IN [i \in 1..Len(dicts) |-> _get(dicts[i], "name", <<>>)]

\* the sentences of the loop body for one service
ServiceSentences(svc) ==
  LET svc_name == _get(svc, "name", <<"a service">>)
      desc == _get(svc, "description", <<>>)
      url == _get(svc, "url", <<>>)
      s == <<"They provide ">> \o str(svc_name)
           \o (IF Truthy(desc) THEN <<": ">> \o str(desc) ELSE <<>>)
           \o (IF Truthy(url) THEN <<" The service is available at ">> \o str(url) \o <<".">>
               ELSE <<>>)
      offer_names == OfferNames(svc)
  IN << rstrip(s) \o <<".">> >>
     \o (IF offer_names = <<>> THEN <<>>
         ELSE << <<"Service offerings include ">>
                 \o Join([i \in 1..Len(offer_names) |-> Val(offer_names[i])], ", ")
                 \o <<".">> >>)

\* the sentences of the loop body for one page
PageSentences(page) ==
  LET page_name == _get(page, "name", <<>>)
      page_url == _get(page, "url", <<>>)
  IN (IF Truthy(page_name) /\ Truthy(page_url)
      THEN << <<"This page (">> \o str(page_url) \o <<") covers ">> \o str(page_name) \o <<".">> >>
      ELSE IF Truthy(page_url)
      THEN << <<"This page is at ">> \o str(page_url) \o <<".">> >>
      ELSE <<>>)
     \o LabelSentence(<<"Key topics: ">>, page)

\* the sentences of the loop body for one blog post
PostSentences(post) ==
  LET title == Or(_get(post, "headline", <<>>), _get(post, "name", <<>>))
      author == _get(post, "author", <<>>)
  IN IF Truthy(title)
     THEN << <<"Article: ">> \o str(title)
             \o (IF Truthy(author) THEN <<" by ">> \o str(author) ELSE <<>>) \o <<".">> >>
     ELSE <<>>

\* one of the calls flatten_graph makes for the nodes of a bucket raises
OrgRaises(org) ==
  \/ \E key \in {"name", "url", "description", "areaServed"} : _getRaises(org, key)
  \/ JoinRaises(_about_labels(org))
ServiceRaises(svc) ==
  \/ \E key \in {"name", "url", "description"} : _getRaises(svc, key)
  \/ LET catalog == GetOrNone(svc, "hasOfferCatalog")
     IN IsDict(catalog) /\
        \/ ListRaises(Get(catalog, "itemListElement", Arr(<<>>)))
        \/ \E i \in 1..Len(ListOf(Get(catalog, "itemListElement", Arr(<<>>)))) :
             LET offer == ListOf(Get(catalog, "itemListElement", Arr(<<>>)))[i]
             IN IsDict(offer) /\ _getRaises(offer, "name")
        \/ JoinRaises(OfferNames(svc))
PageRaises(page) ==
  \/ \E key \in {"name", "url"} : _getRaises(page, key)
  \/ JoinRaises(_about_labels(page))
PostRaises(post) ==
  \/ _getRaises(post, "headline")
  \/ ~_getRaises(post, "headline") /\ ~Truthy(_get(post, "headline", <<>>))
     /\ _getRaises(post, "name")
  \/ _getRaises(post, "author")

\* flatten_graph raises: in _extract_graph, in _node_type (a node without
\* .get, a type list with a non-string) or in one of the loops
FlattenRaises(data) ==
  \/ ExtractRaises(data)
  \/ LET g == flatten_extract_graph(data)
     IN \/ \E i \in 1..Len(g) : ~IsDict(g[i]) \/ _node_typeRaises(g[i])
        \/ /\ \A i \in 1..Len(g) : IsDict(g[i]) /\ ~_node_typeRaises(g[i])
           /\ \/ \E i \in 1..Len(g) : InBucket(g[i], OrgBucket) /\ OrgRaises(g[i])
              \/ \E i \in 1..Len(g) : InBucket(g[i], ServiceBucket) /\ ServiceRaises(g[i])
              \/ \E i \in 1..Len(g) : InBucket(g[i], PageBucket) /\ PageRaises(g[i])
              \/ \E i \in 1..Len(g) : InBucket(g[i], BlogBucket) /\ PostRaises(g[i])

\* flatten_graph emitting each node's sentences where the node stands in the
\* graph instead of bucket after bucket
Sentences_in_graph_order(g) ==
  Concat([i \in 1..Len(g) |->
            IF InBucket(g[i], OrgBucket) THEN OrgSentences(g[i])
            ELSE IF InBucket(g[i], ServiceBucket) THEN ServiceSentences(g[i])
            ELSE IF InBucket(g[i], PageBucket) THEN PageSentences(g[i])
            ELSE IF InBucket(g[i], BlogBucket) THEN PostSentences(g[i])
            ELSE <<>>])

\* the list `sentences` after the four loops of flatten_graph
Sentences(g) ==
  LET orgs == Bucket(g, OrgBucket)
      websites == Bucket(g, WebsiteBucket)
      pages == Bucket(g, PageBucket)
      services == Bucket(g, ServiceBucket)
      blog_posts == Bucket(g, BlogBucket)
  IN Concat([i \in 1..Len(orgs) |-> OrgSentences(orgs[i])])
     \o Concat([i \in 1..Len(services) |-> ServiceSentences(services[i])])
     \o Concat([i \in 1..Len(pages) |-> PageSentences(pages[i])])
     \o Concat([i \in 1..Len(blog_posts) |-> PostSentences(blog_posts[i])])

\* flatten_graph(jsonld): [val, err], val the returned text
flatten_graph(data) ==
  IF FlattenRaises(data) THEN Raises
  ELSE LET g == flatten_extract_graph(data)
       IN IF g = <<>> THEN Returns(<<>>)
          ELSE IF Sentences(g) = <<>> THEN Returns(<<>>)
          ELSE Returns(Join(Sentences(g), " "))

\* The graphs flatten_graph is run on
MaxFlattenNodes == 3

\* A sentence-like text ending in a full stop.
Sentence(tok) == Str(<<tok, ".">>)

\* The nodes of those graphs: each bucket with and without the keys its loop
\* reads, a bucket the loops leave out, list-valued types of one and of two
\* names, a page and a post that give no sentence, and a catalog whose items
\* are JSON null.
FlattenPool ==
  { Dict({<<"@type", T("Organization")>>, <<"name", Text("Acme")>>, <<"url", Str(acme)>>,
          <<"description", Sentence("We build")>>,
          <<"areaServed", Arr(<<Text("US"), Dict({<<"name", Text("EU")>>})>>)>>,
          <<"about", Arr(<<Dict({<<"name", Text("FinTech")>>}), Text("x")>>)>>}),
    Dict({<<"@type", T("LocalBusiness")>>}),
    Dict({<<"@type", Arr(<<T("Organization"), T("LocalBusiness")>>)>>, <<"name", Text("Acme")>>}),
    Dict({<<"@type", Arr(<<T("Organization")>>)>>, <<"name", Text("Acme")>>}),
    Dict({<<"@type", T("Service")>>, <<"name", Text("Audit")>>,
          <<"url", Str(acme \o <<"/", "page">>)>>,
          <<"hasOfferCatalog",
            Dict({<<"itemListElement",
                    Arr(<<Dict({<<"name", Text("Basic")>>}), Dict({<<"name", Text("Pro")>>})>>)>>})>>}),
    Dict({<<"@type", T("FinancialService")>>, <<"description", Sentence("Loans")>>,
          <<"hasOfferCatalog", Dict({<<"itemListElement", Null>>})>>}),
    Dict({<<"@type", T("WebPage")>>, <<"name", Text("Home")>>, <<"url", Str(acme)>>,
          <<"about", Text("FinTech")>>}),
    Dict({<<"@type", T("FAQPage")>>, <<"name", Text("FAQ")>>}),
    Dict({<<"@type", T("Article")>>, <<"headline", Text("News")>>,
          <<"author", Dict({<<"name", Text("Ann")>>})>>}),
    Dict({<<"@type", T("WebSite")>>, <<"url", Str(acme)>>}) }

FlattenGraphs == UNION {[1..n -> FlattenPool] : n \in 0..MaxFlattenNodes}

\* The documents flatten_graph is called with: a node list, an envelope, a bare
\* node, a scalar.
FlattenInputs ==
  {Arr(g) : g \in FlattenGraphs}
  \cup {Dict({<<"@context", Context>>, <<"@graph", Arr(g)>>}) : g \in FlattenGraphs}
  \cup FlattenPool
  \cup {Null}

(* flatten_graph called on a document *)

InitFlatten ==
  /\ jsonld \in FlattenInputs
  /\ entry = "flatten_graph"
  /\ pc = entry
  /\ flattened = <<>>
  /\ job = <<>>
  /\ task = "none"
  /\ db = <<>>
  /\ graph = <<>>
  /\ graph_in = <<>>
  /\ corrections = <<>>
  /\ all_corrections = <<>>
  /\ fixed = Null
  /\ text = <<>>
  /\ concepts = Null
  /\ arg = jsonld
  /\ shared = {}

\* flattened = flatten.flatten_graph(jsonld)
Flatten ==
  /\ pc = "flatten_graph"
  /\ LET r == flatten_graph(jsonld)
     IN IF r.err THEN pc' = "raised" /\ UNCHANGED flattened
        ELSE pc' = "returned" /\ flattened' = r.val
  /\ UNCHANGED <<jsonld, graph, graph_in, corrections, all_corrections, entry, fixed, text,
                 concepts, arg, shared, job, task, db>>

NextFlatten == Flatten

FlattenSpec == InitFlatten /\ [][NextFlatten]_vars

---------------------------------------------------------------------------
(* backend/app/jobs.py: run_audit_job on a job made by create_job. The      *)
(* coroutine runs without interruption from one await to the next, so a     *)
(* step of the model is the stretch of code between two awaits and the      *)
(* states are what a reader of the job can see.                             *)

\* The largest number of URLs of a job, and the URLs.
MaxUrls == 3
Urls == {"a", "b"}

\* Job(id=..., urls=urls, progress_total=len(urls), ...) with the dataclass
\* defaults; project_id "" stands for None
create_job(urls, project_id) ==
  [urls |-> urls,
   status |-> "pending",
   progress_current |-> 0,
   progress_total |-> Len(urls),
   current_url |-> "",
   results |-> <<>>,
   errors |-> <<>>,
   completed_at |-> "None",
   project_id |-> project_id]

\* What `await audit_single_url(url, ...)` can give: a result dict, a result
\* dict with an error key (with or without a stage), or an exception.
AuditOutcomes(url) ==
  { [raised |-> FALSE, result |-> [url |-> url, json_ld |-> "{}"]],
    [raised |-> FALSE, result |-> [url |-> url, error |-> "fetch failed", stage |-> "crawl"]],
    [raised |-> FALSE, result |-> [url |-> url, error |-> "fetch failed"]],
    [raised |-> TRUE, result |-> [message |-> "boom"]] }

\* the try/except with an except branch that records nothing
Record_uncaught(j, url, out) ==
  IF out.raised THEN j
  ELSE IF "error" \in DOMAIN out.result
  THEN [j EXCEPT !.errors = Append(@, [url |-> url, stage |-> "unknown",
                                       message |-> out.result.error])]
  ELSE [j EXCEPT !.results = Append(@, out.result)]

\* the try/except of the loop body once audit_single_url is back
Record(j, url, out) ==
  IF out.raised
  THEN [j EXCEPT !.errors = Append(@, [url |-> url, stage |-> "unknown",
                                       message |-> out.result.message])]
  ELSE IF "error" \in DOMAIN out.result
  THEN [j EXCEPT !.errors =
          Append(@, [url |-> url,
                     stage |-> IF "stage" \in DOMAIN out.result THEN out.result.stage
                               ELSE "unknown",
                     message |-> out.result.error])]
  ELSE [j EXCEPT !.results = Append(@, out.result)]

\* The loop from pass i (counted from 0) up to its next await: the pass sets
\* the progress and waits for audit_single_url; with no URL left the code
\* after the loop closes the job and waits for _flush_to_db.
EnterPass(j, i) ==
  IF i < Len(j.urls)
  THEN [job |-> [j EXCEPT !.progress_current = i + 1, !.current_url = j.urls[i + 1]],
        task |-> "audit_single_url"]
  ELSE [job |-> [j EXCEPT !.current_url = "",
                          !.completed_at = "now",
                          !.status = IF j.results # <<>> THEN "completed" ELSE "failed"],
        task |-> "_flush_to_db"]

InitJob ==
  /\ \E n \in 0..MaxUrls : \E urls \in [1..n -> Urls] : \E project_id \in {"", "p"} :
       job = create_job(urls, project_id)
  /\ task = "run_audit_job"
  /\ db = <<>>
  /\ entry = "run_audit_job"
  /\ pc = entry
  /\ jsonld = Null
  /\ graph = <<>>
  /\ graph_in = <<>>
  /\ corrections = <<>>
  /\ all_corrections = <<>>
  /\ fixed = Null
  /\ text = <<>>
  /\ concepts = Null
  /\ arg = Null
  /\ shared = {}
  /\ flattened = <<>>

\* job.status = JobStatus.RUNNING, then the approved QIDs of the project are
\* awaited or, without a project, the loop starts
Run ==
  /\ task = "run_audit_job"
  /\ LET j == [job EXCEPT !.status = "running"]
     IN IF j.project_id # ""
        THEN job' = j /\ task' = "get_all_approved_qids_for_project"
        ELSE job' = EnterPass(j, 0).job /\ task' = EnterPass(j, 0).task
  /\ UNCHANGED db
  /\ UNCHANGED <<jsonld, graph, graph_in, corrections, all_corrections, pc, entry, fixed, text,
                 concepts, arg, shared, flattened>>

\* await db.get_all_approved_qids_for_project(...) returns, or raises out of
\* run_audit_job
QidsLoaded ==
  /\ task = "get_all_approved_qids_for_project"
  /\ \E raised \in BOOLEAN :
       IF raised THEN task' = "raised" /\ UNCHANGED job
       ELSE job' = EnterPass(job, 0).job /\ task' = EnterPass(job, 0).task
  /\ UNCHANGED db
  /\ UNCHANGED <<jsonld, graph, graph_in, corrections, all_corrections, pc, entry, fixed, text,
                 concepts, arg, shared, flattened>>

\* await audit_single_url(...) returns or raises; the outcome is recorded and
\* the loop goes on
Audited ==
  /\ task = "audit_single_url"
  /\ \E out \in AuditOutcomes(job.current_url) :
       LET i == job.progress_current - 1
           next == EnterPass(Record(job, job.current_url, out), i + 1)
       IN job' = next.job /\ task' = next.task
  /\ UNCHANGED db
  /\ UNCHANGED <<jsonld, graph, graph_in, corrections, all_corrections, pc, entry, fixed, text,
                 concepts, arg, shared, flattened>>

\* await _flush_to_db(job) returns, or raises and is logged
Flushed ==
  /\ task = "_flush_to_db"
  /\ \E raised \in BOOLEAN : db' = IF raised THEN db ELSE <<job>>
  /\ task' = "returned"
  /\ UNCHANGED job
  /\ UNCHANGED <<jsonld, graph, graph_in, corrections, all_corrections, pc, entry, fixed, text,
                 concepts, arg, shared, flattened>>

NextJob ==
  \/ Run
  \/ QidsLoaded
  \/ Audited
  \/ Flushed

JobSpec == InitJob /\ [][NextJob]_vars

---------------------------------------------------------------------------
(* Properties *)

\* run_pipeline returned (fixed, all_corrections)
Done == entry = "run_pipeline" /\ pc = "done"

\* The three container kinds of a document.
IsEnvelope(V) == IsDict(V) /\ Has(V, "@graph") /\ IsList(Val(V)["@graph"])
IsBare(V) == IsDict(V) /\ ~Has(V, "@graph")

\* No two nodes share a non-empty @id.
UniqueIds(g) ==
  \A i, j \in 1..Len(g) :
    (i < j /\ IsDict(g[i]) /\ IsDict(g[j]) /\ Truthy(Get(g[i], "@id", Null)))
      => Get(g[i], "@id", Null) # Get(g[j], "@id", Null)

\* A string from which urlparse derives a scheme and a host.
Absolute(v) ==
  IsStr(v) /\ urlparse(Val(v)).scheme # <<>> /\ urlparse(Val(v)).netloc # <<>>

RECURSIVE Sum(_)
Sum(ns) == IF ns = <<>> THEN 0 ELSE Head(ns) + Sum(Tail(ns))

\* @type is a string or a list of strings
WellTyped(node) ==
  IsDict(node) /\
  LET t == Get(node, "@type", Str(<<>>))
  IN IsStr(t) \/ (IsList(t) /\ \A i \in 1..Len(Val(t)) : IsStr(Val(t)[i]))

\* C1: idempotence of run_pipeline. For every input document, running
\* run_pipeline again on the document it returned does not raise, yields an
\* empty correction log and returns a document equal to the first output.
C1_Idempotent ==
  Done => LET again == run_pipeline(fixed)
          IN ~again.err /\ again.corr = <<>> /\ again.doc = fixed

\* C2: run_pipeline never raises. For every value that
\* parse_jsonld_from_llm_response can return, the run does not end in an
\* exception.
C2_NeverRaises ==
  (entry = "run_pipeline" /\ IsJsonLd(jsonld)) => pc # "raised"

C4_NoDuplicateId ==
  (Done /\ UniqueIds(_extract_graph(jsonld))) => UniqueIds(graph)

\* C5: validate_id_refs is read-only. The node list it returns is the list it
\* was given, every node, key and value unchanged; all it produces are
\* validate_id_refs correction records.
C5_ReadOnly ==
  Returned("validate_id_refs") =>
    /\ graph = graph_in
    /\ \A k \in 1..Len(corrections) : corrections[k].transform = "validate_id_refs"
    /\ Len(all_corrections) >= Len(corrections)
    /\ SubSeq(all_corrections, Len(all_corrections) - Len(corrections) + 1,
              Len(all_corrections)) = corrections

\* C5 witness: validate_id_refs returned corrections for a graph of two nodes.
C5_Witness ==
  Returned("validate_id_refs") /\ Len(graph_in) = 2 /\ Len(corrections) >= 2

\* The @id of every top-level node that has one.
TopLevelIds(g) == {Val(g[i])["@id"] : i \in {j \in 1..Len(g) : Has(g[j], "@id")}}

RECURSIVE Occurrences(_, _)
\* The number of objects within v (v included) whose only key is @id and whose
\* @id is not in ids.
Occurrences(v, ids) ==
  IF IsDict(v)
  THEN (IF DOMAIN Val(v) = {"@id"} /\ Val(v)["@id"] \notin ids THEN 1 ELSE 0)
       + Sum([j \in 1..Len(Keys(v)) |-> Occurrences(Val(v)[Keys(v)[j]], ids)])
  ELSE IF IsList(v)
  THEN Sum([i \in 1..Len(Val(v)) |-> Occurrences(Val(v)[i], ids)])
  ELSE 0

\* C6: dangling-reference detection is exact. validate_id_refs emits exactly
\* one correction for each object, at any depth inside a node's property
\* values, whose only key is @id and whose @id is not the @id of a top-level
\* node, and none for anything else.
C6_DanglingExact ==
  Returned("validate_id_refs") =>
    Len(corrections) =
      Sum([i \in 1..Len(graph_in) |->
             Sum([j \in 1..Len(Keys(graph_in[i])) |->
                    Occurrences(Val(graph_in[i])[Keys(graph_in[i])[j]],
                                TopLevelIds(graph_in))])])

\* C7: after fix_about_placement no node whose @type, a string or a list of
\* strings, includes Service, ProfessionalService or FinancialService has an
\* about key.
C7_NoServiceAbout ==
  Returned("fix_about_placement") =>
    \A i \in 1..Len(graph) :
      (WellTyped(graph[i]) /\ MatchesType(graph[i], ServiceTypes)) => ~Has(graph[i], "about")

\* The about values fix_about_placement takes off the service-family nodes of
\* g, in node order, list values flattened.
RemovedAbout(g) ==
  LET svc == SelectSeq(Indices(Len(g)),
                       LAMBDA i : MatchesType(g[i], ServiceTypes)
                                  /\ ~IsNone(Get(g[i], "about", Null)))
  IN Concat([j \in 1..Len(svc) |->
               IF IsList(Val(g[svc[j]])["about"]) THEN Val(Val(g[svc[j]])["about"])
               ELSE <<Val(g[svc[j]])["about"]>>])

\* The entries of a node's about: those of a list, a non-list value as one entry.
AboutEntries(node) ==
  IF ~Has(node, "about") THEN <<>>
  ELSE IF IsList(Val(node)["about"]) THEN Val(Val(node)["about"])
  ELSE <<Val(node)["about"]>>

\* C8: about relocation conserves values. When fix_about_placement removes
\* about values from service-family nodes and a page-like node exists, the
\* first page-like node's about afterwards is the list of its previous about
\* entries followed by every removed value, and exactly one merge correction is
\* emitted; when no page-like node exists the graph is the given one with the
\* about keys taken off the service-family nodes.
C8_AboutConserved ==
  (Returned("fix_about_placement") /\ RemovedAbout(graph_in) # <<>>) =>
    LET pages == _find_nodes_by_type(graph_in, PageTypes)
    IN IF pages # <<>>
       THEN /\ Get(graph[pages[1]], "about", Null)
                 = Arr(AboutEntries(graph_in[pages[1]]) \o RemovedAbout(graph_in))
            /\ Cardinality({k \in 1..Len(corrections) :
                              corrections[k].detail[1] = "Moved about entries to WebPage"}) = 1
       ELSE graph = [i \in 1..Len(graph_in) |->
                       IF MatchesType(graph_in[i], ServiceTypes)
                       THEN Pop(graph_in[i], "about") ELSE graph_in[i]]

\* The url, or else the @id, of a node that is absolute (Null: neither).
AbsoluteUrlOrId(node) ==
  IF Absolute(Get(node, "url", Null)) THEN Val(node)["url"]
  ELSE IF Absolute(Get(node, "@id", Null)) THEN Val(node)["@id"]
  ELSE Null

\* C9: WebSite synthesis. For a graph with no WebSite node in which an
\* Organization/ProfessionalService node, or failing that a page-like node, has
\* an absolute url or @id, the output of run_pipeline holds exactly one WebSite
\* node, with @id scheme://host/#website, url scheme://host, name host, and
\* publisher {"@id": organization @id} exactly when the base URL came from an
\* organization node that has an @id. With a WebSite node in its input
\* ensure_website_node changes nothing and emits no correction.
C9_WebSiteSynthesis ==
  /\ Done =>
       LET g0 == _extract_graph(jsonld)
           has(i) == ~IsNone(AbsoluteUrlOrId(g0[i]))
           orgs == SelectSeq(_find_nodes_by_type(g0, OrgTypes), has)
           pages == SelectSeq(_find_nodes_by_type(g0, PageTypes), has)
           src == IF orgs # <<>> THEN orgs[1] ELSE pages[1]
           url == urlparse(Val(AbsoluteUrlOrId(g0[src])))
           base == url.scheme \o <<":", "//">> \o url.netloc
           sites == _find_nodes_by_type(graph, {"WebSite"})
           pub == orgs # <<>> /\ Truthy(Get(g0[src], "@id", Null))
       IN (_find_nodes_by_type(g0, {"WebSite"}) = <<>> /\ (orgs # <<>> \/ pages # <<>>)) =>
            /\ Len(sites) = 1
            /\ Get(graph[sites[1]], "@id", Null) = Str(base \o <<"/", "#website">>)
            /\ Get(graph[sites[1]], "url", Null) = Str(base)
            /\ Get(graph[sites[1]], "name", Null) = Str(url.netloc)
            /\ Has(graph[sites[1]], "publisher") <=> pub
            /\ pub => Val(graph[sites[1]])["publisher"] = Ref(Val(g0[src])["@id"])
  /\ (Returned("ensure_website_node")
      /\ _find_nodes_by_type(graph_in, {"WebSite"}) # <<>>) =>
       graph = graph_in /\ corrections = <<>>

\* C10: ensure_website_node is a no-op when no base URL can be inferred. If no
\* Organization/ProfessionalService node and no page-like node has a url or
\* @id with a scheme and a host, the transform returns the graph unchanged and
\* emits no correction.
C10_NoBaseNoOp ==
  (Returned("ensure_website_node")
   /\ \A i \in 1..Len(graph_in) :
        MatchesType(graph_in[i], OrgTypes \cup PageTypes) =>
          IsNone(AbsoluteUrlOrId(graph_in[i])))
    => graph = graph_in /\ corrections = <<>>

\* ensure_website_node appended a WebSite node to the graph it was given.
Synthesized == Returned("ensure_website_node") /\ Len(graph) = Len(graph_in) + 1

\* C11: whenever ensure_website_node synthesizes a WebSite node, every page-like
\* node of the resulting graph has isPartOf {"@id": website id}, whatever its
\* isPartOf was before (missing, an object with another @id, a string, a list);
\* one "Set WebPage.isPartOf" correction is emitted per page whose isPartOf was
\* changed and none for a page that already referenced the website id.
C11_IsPartOfWebsite ==
  Synthesized =>
    LET website_id == Val(graph[Len(graph)])["@id"]
        pages == _find_nodes_by_type(graph_in, PageTypes)
        changed == SelectSeq(pages,
                             LAMBDA i : Get(graph_in[i], "isPartOf", Null) # Ref(website_id))
    IN /\ \A i \in 1..Len(graph) :
            MatchesType(graph[i], PageTypes) =>
              Get(graph[i], "isPartOf", Null) = Ref(website_id)
       /\ Cardinality({k \in 1..Len(corrections) :
                         corrections[k].detail[1] = "Set WebPage.isPartOf"}) = Len(changed)

\* C12: set_main_entity. If the graph has a WebPage/ServicePage node and a
\* service-family node that has an @id, then afterwards the first such page's
\* mainEntity is an object whose @id is that service's @id, with exactly one
\* correction when mainEntity was changed and none when it already pointed
\* there; without such a page or such a service the graph is unchanged and no
\* correction is emitted.
C12_MainEntity ==
  Returned("set_main_entity") =>
    LET pages == _find_nodes_by_type(graph_in, {"WebPage", "ServicePage"})
        services == SelectSeq(_find_nodes_by_type(graph_in, ServiceTypes),
                              LAMBDA i : Truthy(Get(graph_in[i], "@id", Null)))
    IN IF pages # <<>> /\ services # <<>>
       THEN LET service_id == Val(graph_in[services[1]])["@id"]
                before == Get(graph_in[pages[1]], "mainEntity", Null)
                after == Get(graph[pages[1]], "mainEntity", Null)
                pointed == IsDict(before) /\ Get(before, "@id", Null) = service_id
            IN /\ IsDict(after) /\ Get(after, "@id", Null) = service_id
               /\ Len(corrections) = IF pointed THEN 0 ELSE 1
       ELSE graph = graph_in /\ corrections = <<>>

\* The node declares at least one type of the rule table.
KnownType(node) ==
  \E i \in 1..Len(TypesOf(node)) : InTable(TypesOf(node)[i], _VALID_PROPERTIES)

\* The type names a validate_properties correction gives in its detail.
NamedTypes(c) ==
  IF c.detail[1] = "Removed invalid property (not in schema.org spec)"
  THEN {c.detail[3][i] : i \in 1..Len(c.detail[3])}
  ELSE {<<c.detail[Len(c.detail)]>>}

\* C13: validate_properties postcondition. Afterwards every node that declares
\* at least one type of the rule table has only keys that are meta-keys or
\* members of the union of the allowed sets of its declared types; every node
\* none of whose types is in the table is left completely unchanged and
\* produces no correction (every correction names a type of the table, and a
\* graph without a node of a known type gives no correction at all).
C13_OnlyAllowedKeys ==
  Returned("validate_properties") =>
    /\ Len(graph) = Len(graph_in)
    /\ \A i \in 1..Len(graph) :
         IF KnownType(graph[i])
         THEN DOMAIN Val(graph[i]) \subseteq
                _META_KEYS \cup
                UNION {_VALID_PROPERTIES[tn] :
                         tn \in {x \in DOMAIN _VALID_PROPERTIES :
                                   \E j \in 1..Len(TypesOf(graph[i])) :
                                     TypesOf(graph[i])[j] = T(x)}}
         ELSE graph[i] = graph_in[i]
    /\ \A k \in 1..Len(corrections) :
         \E tn \in DOMAIN _VALID_PROPERTIES : <<tn>> \in NamedTypes(corrections[k])
    /\ (\A i \in 1..Len(graph_in) : ~KnownType(graph_in[i])) => corrections = <<>>

\* C13 witness: validate_properties returned a graph in which a node of a known
\* type lost a key and a node of an unknown type kept a key no table allows.
C13_Witness ==
  /\ Returned("validate_properties")
  /\ \E i, j \in 1..Len(graph) :
       /\ KnownType(graph_in[i]) /\ "foo" \in DOMAIN Val(graph_in[i])
       /\ "foo" \notin DOMAIN Val(graph[i])
       /\ ~KnownType(graph_in[j]) /\ "foo" \in DOMAIN Val(graph[j])

\* The types on which the fix table calls provider invalid.
ProviderInvalidOn == {"Organization", "LocalBusiness", "ProfessionalService"}

\* The number of keys node i of the graph lost in the transform that returned.
KeysRemoved(i) == Cardinality(DOMAIN Val(graph_in[i]) \ DOMAIN Val(graph[i]))

\* C14: invalid property stripping. A node typed Organization, LocalBusiness or
\* ProfessionalService that carries provider loses the provider key and gains
\* no key (no parentOrganization replacement), and validate_properties emits
\* exactly one correction for that key even when the node declares several of
\* these types; in general, the corrections of the stage for a node are as many
\* as the keys the stage removed from it (counted per node_id, which is how a
\* correction names its node).
C14_ProviderStripped ==
  Returned("validate_properties") =>
    LET ids == {NodeId(graph_in[i]) : i \in 1..Len(graph_in)}
        nodes(id) == SelectSeq(Indices(Len(graph_in)), LAMBDA i : NodeId(graph_in[i]) = id)
        about(id, key) ==
          SelectSeq(corrections, LAMBDA c : c.node_id = id /\ c.detail[2] = key)
    IN /\ \A i \in 1..Len(graph_in) :
            (MatchesType(graph_in[i], ProviderInvalidOn) /\ Has(graph_in[i], "provider")) =>
              /\ ~Has(graph[i], "provider")
              /\ DOMAIN Val(graph[i]) \subseteq DOMAIN Val(graph_in[i])
       /\ \A id \in ids :
            /\ Len(about(id, "provider")) =
                 Len(SelectSeq(nodes(id),
                               LAMBDA i : Has(graph_in[i], "provider") /\ ~Has(graph[i], "provider")))
            /\ Len(SelectSeq(corrections, LAMBDA c : c.node_id = id)) =
                 Sum([j \in 1..Len(nodes(id)) |-> KeysRemoved(nodes(id)[j])])
       /\ \A k \in 1..Len(corrections) : corrections[k].node_id \in ids

\* C14 witness: validate_properties returned after taking provider off a node
\* that declares two of the types on which provider is invalid.
C14_Witness ==
  /\ Returned("validate_properties")
  /\ \E i \in 1..Len(graph_in) :
       /\ Cardinality({tn \in ProviderInvalidOn : MatchesType(graph_in[i], {tn})}) >= 2
       /\ Has(graph_in[i], "provider") /\ ~Has(graph[i], "provider")
       /\ Len(corrections) = 1

\* C15: normalize_logo. For every top-level node whose logo is a string s the
\* stage sets logo to {"@type": "ImageObject", "url": s} and emits exactly one
\* normalize_logo correction for that node; nodes whose logo is absent or not a
\* string, and all other keys of every node, are unchanged and produce no
\* correction.
C15_LogoNormalized ==
  Returned("normalize_logo") =>
    LET bare == SelectSeq(Indices(Len(graph_in)),
                          LAMBDA i : IsStr(Get(graph_in[i], "logo", Null)))
    IN /\ Len(graph) = Len(graph_in)
       /\ \A i \in 1..Len(graph_in) :
            IF IsStr(Get(graph_in[i], "logo", Null))
            THEN /\ DOMAIN Val(graph[i]) = DOMAIN Val(graph_in[i])
                 /\ Val(graph[i])["logo"] =
                      Obj([k \in {"@type", "url"} |->
                             IF k = "url" THEN Val(graph_in[i])["logo"]
                             ELSE Str(<<"ImageObject">>)])
                 /\ \A k \in DOMAIN Val(graph_in[i]) \ {"logo"} :
                      Val(graph[i])[k] = Val(graph_in[i])[k]
            ELSE graph[i] = graph_in[i]
       /\ Len(corrections) = Len(bare)
       /\ \A j \in 1..Len(corrections) :
            /\ corrections[j].transform = "normalize_logo"
            /\ corrections[j].node_id = NodeId(graph_in[bare[j]])

\* C15 witness: normalize_logo returned a graph with one node whose logo was a
\* string, now an ImageObject, and one node whose logo was an object already.
C15_Witness ==
  /\ Returned("normalize_logo")
  /\ Len(corrections) = 1
  /\ \E i, j \in 1..Len(graph_in) :
       /\ IsStr(Get(graph_in[i], "logo", Null)) /\ IsDict(Get(graph[i], "logo", Null))
       /\ IsDict(Get(graph_in[j], "logo", Null))

\* The blocks of a text that parse, with a value that qualifies as JSON-LD, in
\* document order.
QualifyingBlocks(txt) ==
  SelectSeq(FindAllJson(txt, 1),
            LAMBDA b : json_loads(b).exc = "" /\ IsJsonLd(json_loads(b).val))

\* C16: JSON-LD extraction. parse_jsonld_from_llm_response scans the json-tagged
\* fenced blocks in document order, skips every block that fails to parse or
\* does not qualify, and returns the first block whose parsed value is an object
\* with @context, @graph or @type or an array with an object that has @type; a
\* malformed block before a qualifying one never prevents the qualifying one
\* from being returned; if no block qualifies it returns None, and it never
\* raises.
C16_FirstQualifyingBlock ==
  entry = "parse_jsonld_from_llm_response" =>
    /\ pc # "raised"
    /\ pc = "returned" =>
         jsonld = IF QualifyingBlocks(text) = <<>> THEN Null
                  ELSE json_loads(QualifyingBlocks(text)[1]).val

\* The json block that immediately follows the heading at position h: nothing
\* but ":", bold markers and white space in between.
FollowingBlock(txt, h) ==
  JsonBlockAt(txt, Skip(txt, h + 1, {":", "**"} \cup Space))

\* The headings of a text that are immediately followed by a fenced JSON array.
HeadingMatches(txt) ==
  SelectSeq(Indices(Len(txt)),
            LAMBDA h : /\ txt[h] = Heading
                       /\ FollowingBlock(txt, h).ok
                       /\ FollowingBlock(txt, h).from <= FollowingBlock(txt, h).to
                       /\ txt[FollowingBlock(txt, h).from] = "[")

\* A list whose elements are all strings.
AllStrings(v) == IsList(v) /\ \A i \in 1..Len(Val(v)) : IsStr(Val(v)[i])

\* What the fallback order gives for a text: the array after the first heading
\* match when it parses, else the first block that parses as an array of
\* strings, else the empty list.
ExpectedConcepts(txt) ==
  LET hs == HeadingMatches(txt)
      anchored == SubSeq(txt, FollowingBlock(txt, hs[1]).from, FollowingBlock(txt, hs[1]).to)
      strs == SelectSeq(FindAllJson(txt, 1),
                        LAMBDA b : json_loads(b).exc = "" /\ AllStrings(json_loads(b).val))
  IN IF hs # <<>> /\ json_loads(anchored).exc = "" /\ IsList(json_loads(anchored).val)
     THEN json_loads(anchored).val
     ELSE IF strs # <<>> THEN json_loads(strs[1]).val
     ELSE Arr(<<>>)

\* C17: concept extraction fallback order. parse_suggested_concepts returns the
\* array that immediately follows a "Suggested Concepts" heading when that array
\* parses; only when there is no heading-anchored match or it fails to parse
\* does it return the first json-fenced block, in document order, that parses
\* as an array whose elements are all strings; if neither path finds anything it
\* returns the empty list, and it never raises.
C17_FallbackOrder ==
  entry = "parse_suggested_concepts" =>
    /\ pc # "raised"
    /\ pc = "returned" => concepts = ExpectedConcepts(text)

\* C18: every value parse_suggested_concepts returns is a list whose elements
\* are all strings, for every text, also when the array under the heading holds
\* numbers, objects or nested arrays.
C18_ListOfStrings ==
  Returned("parse_suggested_concepts") => AllStrings(concepts)

\* C19: every record of the correction log run_pipeline returns has the three
\* fields transform, node_id and detail, whichever stage emitted it.
C19_RecordFields ==
  Done => \A k \in 1..Len(all_corrections) :
            DOMAIN all_corrections[k] = {"transform", "node_id", "detail"}

\* The position of a stage in the order the stages are documented to run in.
StageNumber(transform) ==
  CASE transform = "normalize_logo" -> 1
    [] transform = "ensure_website_node" -> 2
    [] transform = "fix_about_placement" -> 3
    [] transform = "set_main_entity" -> 4
    [] transform = "validate_properties" -> 5
    [] transform = "validate_id_refs" -> 6

\* C20: the correction log run_pipeline returns is the concatenation of the
\* stages' corrections in execution order. No record of a later stage precedes
\* a record of an earlier stage in the order normalize_logo,
\* ensure_website_node, fix_about_placement, set_main_entity,
\* validate_properties, validate_id_refs, and every stage runs exactly once on
\* the graph produced by its predecessor: the log is the corrections of
\* normalize_logo on the extracted graph, then those of ensure_website_node on
\* the graph normalize_logo returned, and so on, and the document returned is
\* the last stage's graph wrapped.
C20_LogInStageOrder ==
  Done =>
    LET r1 == normalize_logo(_extract_graph(jsonld))
        r2 == ensure_website_node(r1.graph)
        r3 == fix_about_placement(r2.graph)
        r4 == set_main_entity(r3.graph)
        r5 == validate_properties(r4.graph)
        r6 == validate_id_refs(r5.graph)
    IN /\ \A i, j \in 1..Len(all_corrections) :
            i < j => StageNumber(all_corrections[i].transform)
                       <= StageNumber(all_corrections[j].transform)
       /\ all_corrections = r1.corr \o r2.corr \o r3.corr \o r4.corr \o r5.corr \o r6.corr
       /\ graph = r6.graph
       /\ fixed = _wrap_graph(r6.graph, jsonld)

\* C20 witness: run_pipeline returned a log with records of at least four stages.
C20_Witness ==
  /\ Done
  /\ Cardinality({all_corrections[k].transform : k \in 1..Len(all_corrections)}) >= 4

\* A JSON scalar: a string, a number (or boolean) or null.
IsScalar(v) == Kind(v) \in {"str", "num", "null"}

\* C21: structurally unusable input. For a JSON scalar the normalizer yields an
\* empty node list, every stage is a no-op, and run_pipeline returns the
\* original value itself together with an empty correction log.
C21_ScalarPassThrough ==
  (entry = "run_pipeline" /\ IsScalar(jsonld)) =>
    /\ pc # "raised"
    /\ pc \notin {"extract", "raised"} => graph = <<>> /\ all_corrections = <<>>
    /\ pc = "done" => fixed = jsonld

\* C22: run_pipeline works on a private copy. At every point of a call the
\* caller's argument still holds what it held when the call started, and
\* neither the node list being repaired nor the returned document is built
\* from an object (container, sibling value or node) of the argument.
C22_PrivateCopy ==
  entry = "run_pipeline" => arg = jsonld /\ shared = {}

\* a call on an envelope with sibling keys whose nodes the stages rewrote
C22_Witness ==
  /\ Done
  /\ IsEnvelope(jsonld)
  /\ Keys(jsonld) # <<"@graph">>
  /\ all_corrections # <<>>
  /\ fixed # jsonld

\* C23: the correction log is a complete audit trail. A stage that reports no
\* correction returns the graph it was given, and a call of run_pipeline
\* that returns an empty log returns a document equal to its input.
C23_CompleteAuditTrail ==
  /\ \A i \in 1..Len(TRANSFORMS) :
       Returned(TRANSFORMS[i]) /\ corrections = <<>> => graph = graph_in
  /\ Done /\ all_corrections = <<>> => fixed = jsonld

\* flatten_graph has returned flattened for the nodes of jsonld
Flattened == entry = "flatten_graph" /\ pc = "returned"

\* the sentences of the nodes of one bucket, in graph order
OfOrgs(g) == Concat([i \in 1..Len(g) |-> IF InBucket(g[i], OrgBucket) THEN OrgSentences(g[i]) ELSE <<>>])
OfServices(g) ==
  Concat([i \in 1..Len(g) |-> IF InBucket(g[i], ServiceBucket) THEN ServiceSentences(g[i]) ELSE <<>>])
OfPages(g) ==
  Concat([i \in 1..Len(g) |-> IF InBucket(g[i], PageBucket) THEN PageSentences(g[i]) ELSE <<>>])
OfPosts(g) ==
  Concat([i \in 1..Len(g) |-> IF InBucket(g[i], BlogBucket) THEN PostSentences(g[i]) ELSE <<>>])

\* C24: the text flatten_graph returns is empty when the graph has no node or
\* no bucket gives a sentence; otherwise it is the sentences of the
\* organizations, then of the services, then of the pages, then of the
\* articles, each bucket in graph order, joined by single spaces.
C24_OutputShape ==
  Flattened =>
    LET g == flatten_extract_graph(jsonld)
        expected == OfOrgs(g) \o OfServices(g) \o OfPages(g) \o OfPosts(g)
    IN /\ expected = <<>> => flattened = <<>>
       /\ expected # <<>> => flattened = Join(expected, " ") /\ flattened # <<>>

\* a page that gives a sentence stands before an organization and a service
\* stands between two organizations
C24_Witness ==
  /\ Flattened
  /\ LET g == flatten_extract_graph(jsonld)
     IN /\ Len(g) = 3
        /\ InBucket(g[1], OrgBucket) /\ InBucket(g[3], OrgBucket) /\ g[1] # g[3]
        /\ \/ InBucket(g[2], ServiceBucket)
           \/ InBucket(g[2], PageBucket) /\ PageSentences(g[2]) # <<>>
  /\ flattened # <<>>

\* a node whose @type is a list naming a type of one of the four buckets
ListTyped(node, bucket) ==
  /\ IsDict(node)
  /\ IsList(Get(node, "@type", Str(<<>>)))
  /\ \E i \in 1..Len(Val(Val(node)["@type"])) : \E tn \in bucket :
       Val(Val(node)["@type"])[i] = T(tn)

\* C25: flatten_graph buckets a node by its declared types whether @type is a
\* string or a list: a graph holding a node whose type list names an
\* organization type is rendered with that node's organization sentences and
\* so never flattens to the empty text.
C25_ListTypesBucketed ==
  Flattened =>
    LET g == flatten_extract_graph(jsonld)
    IN \A i \in 1..Len(g) :
         ListTyped(g[i], OrgBucket) => flattened # <<>>

\* the node at that place is the node the input had there: nothing rewrites
\* @type or @id, and what is not a dict is not touched at all
SameNode(out, in) ==
  IF IsDict(in)
  THEN IsDict(out) /\ \A k \in {"@type", "@id"} : GetOrNone(out, k) = GetOrNone(in, k)
       /\ Has(out, k) = Has(in, k)
  ELSE out = in

\* the "Added missing WebSite node" records of a log
Added(log) ==
  SelectSeq(log, LAMBDA c : c.transform = "ensure_website_node" /\ "node_id" \notin DOMAIN c)

\* C26: run_pipeline preserves node order and count. After every stage the
\* node list is the input's nodes, each at its place, followed by at most one
\* more node, which is the WebSite node ensure_website_node reported adding;
\* the returned document holds exactly that list.
C26_OrderAndCount ==
  (entry = "run_pipeline" /\ pc \notin {"extract", "raised"}) =>
    LET in == _extract_graph(jsonld)
        n == Len(in)
    IN /\ Len(graph) \in {n, n + 1}
       /\ \A i \in 1..n : SameNode(graph[i], in[i])
       /\ Len(graph) = n <=> Added(all_corrections) = <<>>
       /\ Len(graph) = n + 1 =>
            /\ Len(Added(all_corrections)) = 1
            /\ MatchesType(graph[n + 1], {"WebSite"})
            /\ Str(Added(all_corrections)[1].detail[2]) = GetOrNone(graph[n + 1], "@id")
       /\ pc = "done" => _extract_graph(fixed) = graph

\* a call on two different nodes that got a WebSite node appended
C26_Witness ==
  /\ Done
  /\ Len(_extract_graph(jsonld)) = 2
  /\ ~SameNode(_extract_graph(jsonld)[1], _extract_graph(jsonld)[2])
  /\ Len(graph) = 3

RECURSIVE StubIds(_)
\* the @id values of the reference stubs within v, v included
StubIds(v) ==
  IF IsDict(v)
  THEN (IF IsStub(v) THEN {Val(v)["@id"]} ELSE {})
       \cup UNION {StubIds(Val(v)[k]) : k \in DOMAIN Val(v)}
  ELSE IF IsList(v) THEN UNION {StubIds(Val(v)[i]) : i \in 1..Len(Val(v))}
  ELSE {}

\* C27: references the pipeline wrote are never dangling. Once validate_id_refs
\* has run inside run_pipeline, the id of every stub a stage reported writing
\* (the added WebSite node that isPartOf points to, the mainEntity target) and
\* the publisher of the added WebSite node are @ids of nodes of the final
\* graph, and every dangling-reference record names the @id of a stub of the
\* input document.
C27_OwnRefsResolve ==
  (entry = "run_pipeline" /\ pc \in {"wrap", "done"}) =>
    LET ids == DefinedIds(graph)
        n == Len(_extract_graph(jsonld))
    IN /\ \A k \in 1..Len(all_corrections) :
            LET c == all_corrections[k]
            IN /\ c.transform = "ensure_website_node" => Str(c.detail[2]) \in ids
               /\ c.transform = "set_main_entity" => c.detail[2] \in ids
               /\ c.transform = "validate_id_refs" => c.detail[2] \in StubIds(jsonld)
       /\ \A i \in (n + 1)..Len(graph) :
            Has(graph[i], "publisher") => Val(Val(graph[i])["publisher"])["@id"] \in ids

\* a run in which stages wrote isPartOf and publisher stubs that are still in
\* the final graph and the reference check reported a stub of the input
C27_Witness ==
  /\ Done
  /\ \E k \in 1..Len(all_corrections) :
       /\ all_corrections[k].transform = "ensure_website_node"
       /\ "node_id" \in DOMAIN all_corrections[k]
  /\ Has(graph[Len(graph)], "publisher")
  /\ \E k \in 1..Len(all_corrections) : all_corrections[k].transform = "validate_id_refs"

\* the node declares the type Service: its @type is that string or a list
\* holding it
DeclaresService(node) == IsDict(node) /\ \E i \in 1..Len(TypesOf(node)) : TypesOf(node)[i] = T("Service")

\* C28: inside run_pipeline the Service-about rule of validate_properties is
\* a no-op. validate_properties is never given a node that declares the type
\* Service and has an about key, and its log has no record of removing about
\* from a Service node.
C28_ServiceAboutNoOp ==
  (entry = "run_pipeline" /\ Returned("validate_properties")) =>
    /\ \A i \in 1..Len(graph_in) :
         (WellTyped(graph_in[i]) /\ DeclaresService(graph_in[i])) => ~Has(graph_in[i], "about")
    /\ \A k \in 1..Len(corrections) :
         ~(corrections[k].detail[2] = "about" /\ corrections[k].detail[Len(corrections[k].detail)] = "Service")

\* the key is in the allowed set of a type the node declares
LegalOn(node, k) ==
  \E i \in 1..Len(TypesOf(node)) :
    InTable(TypesOf(node)[i], _VALID_PROPERTIES) /\ k \in _VALID_PROPERTIES[Name(TypesOf(node)[i])]

\* C29: validate_properties keeps every legal property. A key of a node that
\* is in the allowed set of at least one type the node declares is still on
\* the node, with the same value, when the stage returns.
C29_LegalKeysKept ==
  Returned("validate_properties") =>
    \A i \in 1..Len(graph_in) :
      WellTyped(graph_in[i]) =>
        \A k \in DOMAIN Val(graph_in[i]) :
          LegalOn(graph_in[i], k) => Has(graph[i], k) /\ Val(graph[i])[k] = Val(graph_in[i])[k]

\* pending, then running, then completed or failed
Rank(status) ==
  CASE status = "pending" -> 0
    [] status = "running" -> 1
    [] status \in {"completed", "failed"} -> 2

\* the entries of results and errors for that URL
EntriesFor(j, url) ==
  Len(SelectSeq(j.results, LAMBDA r : r.url = url))
  + Len(SelectSeq(j.errors, LAMBDA e : e.url = url))

\* what a reader of the job sees between two awaits of run_audit_job
JobInv ==
  LET done == Len(job.results) + Len(job.errors)
  IN /\ job.status \in {"pending", "running", "completed", "failed"}
     /\ done <= job.progress_current
     /\ job.progress_current <= job.progress_total
     /\ job.progress_total = Len(job.urls)
     \* one entry for each URL audited so far, none for the others
     /\ done \in {job.progress_current - 1, job.progress_current}
     /\ \A url \in Urls :
          EntriesFor(job, url) = Len(SelectSeq(SubSeq(job.urls, 1, done), LAMBDA u : u = url))
     /\ \A k \in 1..Len(job.results) : "error" \notin DOMAIN job.results[k]
     /\ job.status \in {"completed", "failed"} =>
          /\ done = job.progress_total
          /\ job.status = "completed" <=> job.results # <<>>

\* the status never moves back and a closed job stays as it is
StatusStep ==
  /\ Rank(job.status) <= Rank(job'.status)
  /\ job.status \in {"completed", "failed"} => job' = job

\* C30: job progress invariant of run_audit_job. Between any two awaits the
\* counters satisfy len(results) + len(errors) <= progress_current <=
\* progress_total, every URL audited so far has exactly one entry in results
\* or errors, a completed or failed job has one entry per URL and is
\* completed exactly when results is not empty, also when the flush failed;
\* and the status only moves pending, running, completed or failed.
C30_JobProgress == [](entry = "run_audit_job" => JobInv) /\ [][entry = "run_audit_job" => StatusStep]_vars

\* a closed job with results and errors, an audit that raised among them,
\* whose flush to the database failed
C30_Witness ==
  /\ entry = "run_audit_job"
  /\ task = "returned"
  /\ db = <<>>
  /\ job.status = "completed"
  /\ \E k \in 1..Len(job.errors) : job.errors[k].message = "boom"
  /\ \E k \in 1..Len(job.errors) : job.errors[k].stage = "crawl"

====
